---- MODULE Spec2Model ----
(***************************************************************************)
(* Model of the dispo-master parsing core (src-tauri/src): the request     *)
(* parse_files -> create_job_rows -> JobRow::from_dataframe, and the       *)
(* date arithmetic (middle_between_dates, calculate_tolerance).            *)
(*                                                                         *)
(* Representation.                                                         *)
(*  - A string is the sequence of its UTF-16 code units (naturals).        *)
(*  - A NaiveDateTime is [secs, nanos]: whole seconds since the epoch      *)
(*    1970-01-01 00:00:00 and 0 <= nanos < NANOS_PER_SEC.  A chrono        *)
(*    Duration is the same pair (nanos never negative), as in chrono.      *)
(*  - A table column is the sequence of its cells, each cell keeping its   *)
(*    own variant; the join pairs rows in the order of the left table.     *)
(***************************************************************************)
EXTENDS Integers, Sequences, FiniteSets, TLC

VARIABLES
    phase,          \* "dates": the date engine is exercised; "request": parse_files;
                    \* "call": one function of the parsing core is called
    date1, date2,   \* the two arguments of the date functions
    middle,         \* result of middle_between_dates(date1, date2), or NoValue
    tolerance,      \* Some(calculate_tolerance(date1, date2)), or NoValue
    cl_view,        \* the CL-View workbook of the request
    shipper_site,   \* the Shipper/Site workbook of the request
    mode,           \* the mode string of the request
    response,       \* NoValue, or the Result returned by parse_files
    call,           \* [op, arg]: the function called and its argument
    returned        \* NoValue, or Some(what the called function returned)

vars == <<phase, date1, date2, middle, tolerance, cl_view, shipper_site, mode, response,
          call, returned>>

NoValue == [none |-> TRUE]
Some(v) == [some |-> v]

(***************************************************************************)
(* chrono arithmetic used by job_row.rs                                    *)
(***************************************************************************)
NANOS_PER_SEC == 1000000000
SECS_PER_MINUTE == 60

\* Rust's integer division truncates toward zero
TruncDiv(a, b) == IF a >= 0 THEN a \div b ELSE -((-a) \div b)

Abs(x) == IF x < 0 THEN -x ELSE x

DateTime(s, n) == [secs |-> s, nanos |-> n]

\* NaiveDateTime::default()
EpochDate == DateTime(0, 0)

\* date1 < date2
DateLess(a, b) == a.secs < b.secs \/ (a.secs = b.secs /\ a.nanos < b.nanos)

\* later_date - earlier_date / signed_duration_since: a Duration, nanos normalised
DateSub(a, b) ==
    LET s == a.secs - b.secs
        n == a.nanos - b.nanos
    IN  IF n < 0 THEN [secs |-> s - 1, nanos |-> n + NANOS_PER_SEC]
                 ELSE [secs |-> s, nanos |-> n]

\* DurationDiv losing the odd second: the carry is not turned into nanoseconds
DurationDivNoCarry(d, rhs) ==
    [secs |-> TruncDiv(d.secs, rhs), nanos |-> TruncDiv(d.nanos, rhs)]

\* duration / rhs (chrono's Div<i32> for Duration)
DurationDiv(d, rhs) ==
    LET secs0 == TruncDiv(d.secs, rhs)
        carry == d.secs - secs0 * rhs
        extra_nanos == TruncDiv(carry * NANOS_PER_SEC, rhs)
        nanos0 == TruncDiv(d.nanos, rhs) + extra_nanos
    IN  IF nanos0 >= NANOS_PER_SEC THEN [secs |-> secs0 + 1, nanos |-> nanos0 - NANOS_PER_SEC]
        ELSE IF nanos0 < 0 THEN [secs |-> secs0 - 1, nanos |-> nanos0 + NANOS_PER_SEC]
        ELSE [secs |-> secs0, nanos |-> nanos0]

\* earlier_date + half_duration
DateAdd(a, d) ==
    LET s == a.secs + d.secs
        n == a.nanos + d.nanos
    IN  IF n >= NANOS_PER_SEC THEN [secs |-> s + 1, nanos |-> n - NANOS_PER_SEC]
                              ELSE [secs |-> s, nanos |-> n]

\* NumMinutes rounding a negative duration away from zero (floor)
NumMinutesFloor(d) == d.secs \div SECS_PER_MINUTE

\* Duration::num_minutes: whole seconds toward zero, then / 60 toward zero
NumMinutes(d) ==
    LET num_seconds == IF d.secs < 0 /\ d.nanos > 0 THEN d.secs + 1 ELSE d.secs
    IN  TruncDiv(num_seconds, SECS_PER_MINUTE)

(***************************************************************************)
(* Tolerance/date engine                                                   *)
(***************************************************************************)
\* middle_between_dates adding the half duration to its first argument
middle_between_dates_from_first(d1, d2) ==
    LET earlier_date == IF DateLess(d1, d2) THEN d1 ELSE d2
        later_date == IF DateLess(d1, d2) THEN d2 ELSE d1
        duration == DateSub(later_date, earlier_date)
        half_duration == DurationDiv(duration, 2)
    IN  DateAdd(d1, half_duration)

middle_between_dates(d1, d2) ==
    LET earlier_date == IF DateLess(d1, d2) THEN d1 ELSE d2
        later_date == IF DateLess(d1, d2) THEN d2 ELSE d1
        duration == DateSub(later_date, earlier_date)
        half_duration == DurationDiv(duration, 2)
    IN  DateAdd(earlier_date, half_duration)

\* difference_in_minutes counting a started minute below zero as a whole one
difference_in_minutes_floor(d1, d2) == DateSub(d1, d2).secs \div SECS_PER_MINUTE

difference_in_minutes(d1, d2) == NumMinutes(DateSub(d1, d2))

\* calculate_tolerance_middle_date without the last bucket
calculate_tolerance_middle_date_unbucketed(edge_date, middle_date) ==
    LET difference == Abs(difference_in_minutes(edge_date, middle_date))
    IN  IF difference <= 0 THEN 0
        ELSE IF difference <= 15 THEN 15
        ELSE IF difference <= 30 THEN 30
        ELSE IF difference <= 60 THEN 60
        ELSE difference

calculate_tolerance_middle_date(edge_date, middle_date) ==
    LET difference == Abs(difference_in_minutes(edge_date, middle_date))
    IN  IF difference <= 0 THEN 0
        ELSE IF difference <= 15 THEN 15
        ELSE IF difference <= 30 THEN 30
        ELSE IF difference <= 60 THEN 60
        ELSE 120

\* calculate_tolerance measuring the early date against the late date
calculate_tolerance_whole_window(early_date, late_date) ==
    calculate_tolerance_middle_date(early_date, late_date)

calculate_tolerance(early_date, late_date) ==
    LET middle_date == middle_between_dates(early_date, late_date)
    IN  calculate_tolerance_middle_date(early_date, middle_date)

(***************************************************************************)
(* Inputs of the date engine                                               *)
(***************************************************************************)
\* widest window, in minutes, between the two dates
MaxMinute == 124
\* minutes the first date may lie after the base instant
MaxFirstMinute == 1

\* base instants: shortly before the epoch, and 2024-01-01 08:00:00
DateBases == {-120, 1704096000}

\* the part of an instant below the minute: <<seconds, nanoseconds>>
SubMinute == {<<0, 0>>, <<0, 1>>, <<30, 0>>, <<59, 999999999>>}

DatesFrom(base, maxMinute) ==
    {DateTime(base + SECS_PER_MINUTE * m + sn[1], sn[2]) : m \in 0..maxMinute, sn \in SubMinute}

InitDates ==
    /\ phase = "dates"
    /\ \E base \in DateBases :
          /\ date1 \in DatesFrom(base, MaxFirstMinute)
          /\ date2 \in DatesFrom(base, MaxMinute)
    /\ middle = NoValue
    /\ tolerance = NoValue
    /\ cl_view = NoValue
    /\ shipper_site = NoValue
    /\ mode = NoValue
    /\ response = NoValue
    /\ call = NoValue
    /\ returned = NoValue

MiddleBetweenDates ==
    /\ phase = "dates"
    /\ middle = NoValue
    /\ middle' = middle_between_dates(date1, date2)
    /\ UNCHANGED <<phase, date1, date2, tolerance, cl_view, shipper_site, mode, response,
                   call, returned>>

CalculateTolerance ==
    /\ phase = "dates"
    /\ tolerance = NoValue
    /\ tolerance' = Some(calculate_tolerance(date1, date2))
    /\ UNCHANGED <<phase, date1, date2, middle, cl_view, shipper_site, mode, response,
                   call, returned>>

NextDates == MiddleBetweenDates \/ CalculateTolerance

SpecDates == InitDates /\ [][NextDates]_vars

(***************************************************************************)
(* Strings, results and the two closed enums (job_row.rs)                  *)
(***************************************************************************)
Ok(v) == [ok |-> TRUE, value |-> v]
Err(e) == [ok |-> FALSE, error |-> e]

\* the code units of the characters the parsers look at
CharSlash == 47
CharColon == 58
CharComma == 44
CharDot == 46
CharPlus == 43
CharMinus == 45
CharZero == 48
CharNine == 57

\* "Delivery" and "Pickup"
DeliveryText == <<68, 101, 108, 105, 118, 101, 114, 121>>
PickupText == <<80, 105, 99, 107, 117, 112>>

DispoModes == {"Delivery", "Pickup"}

\* Display for DispoMode
DispoMode_to_string(m) == IF m = "Delivery" THEN DeliveryText ELSE PickupText

\* DispoMode::from_str matching without regard to case
DispoMode_from_str_any_case(value) ==
    LET Lower(c) == IF c >= 65 /\ c <= 90 THEN c + 32 ELSE c
        lowered == [i \in 1..Len(value) |-> Lower(value[i])]
    IN  IF lowered = [i \in 1..Len(DeliveryText) |-> Lower(DeliveryText[i])] THEN Ok("Delivery")
        ELSE IF lowered = [i \in 1..Len(PickupText) |-> Lower(PickupText[i])] THEN Ok("Pickup")
        ELSE Err([kind |-> "StringToDispoMode", text |-> value])

\* DispoMode::from_str
DispoMode_from_str(value) ==
    IF value = DeliveryText THEN Ok("Delivery")
    ELSE IF value = PickupText THEN Ok("Pickup")
    ELSE Err([kind |-> "StringToDispoMode", text |-> value])

(***************************************************************************)
(* Column names of the .xls files and the mode's column mapping            *)
(* (file_parsing.rs)                                                       *)
(***************************************************************************)
\* "Load #"
JOB_NUMBER_COLUMN_NAME == <<76, 111, 97, 100, 32, 35>>
\* "Ref: House Waybill Number"
HAWB_COLUMN_NAME == <<82, 101, 102, 58, 32, 72, 111, 117, 115, 101, 32, 87, 97, 121, 98, 105, 108, 108, 32, 78, 117, 109, 98, 101, 114>>
\* "Actual Quantity"
QUANTITY_COLUMN_NAME == <<65, 99, 116, 117, 97, 108, 32, 81, 117, 97, 110, 116, 105, 116, 121>>
\* "Shipper"
SHIPPER_COLUMN_NAME == <<83, 104, 105, 112, 112, 101, 114>>
\* "Shipper Name"
SHIPPER_NAME_COLUMN_NAME == <<83, 104, 105, 112, 112, 101, 114, 32, 78, 97, 109, 101>>
\* "Shipper Address"
SHIPPER_ADDRESS_COLUMN_NAME == <<83, 104, 105, 112, 112, 101, 114, 32, 65, 100, 100, 114, 101, 115, 115>>
\* "Shipper City"
SHIPPER_CITY_COLUMN_NAME == <<83, 104, 105, 112, 112, 101, 114, 32, 67, 105, 116, 121>>
\* "Shipper State"
SHIPPER_STATE_COLUMN_NAME == <<83, 104, 105, 112, 112, 101, 114, 32, 83, 116, 97, 116, 101>>
\* "Shipper Postal Code"
SHIPPER_POSTAL_CODE_COLUMN_NAME == <<83, 104, 105, 112, 112, 101, 114, 32, 80, 111, 115, 116, 97, 108, 32, 67, 111, 100, 101>>
\* "Shipper Country"
SHIPPER_COUNTRY_COLUMN_NAME == <<83, 104, 105, 112, 112, 101, 114, 32, 67, 111, 117, 110, 116, 114, 121>>
\* "Target Delivery (Early)"
TARGET_DELIVERY_EARLY_COLUMN_NAME == <<84, 97, 114, 103, 101, 116, 32, 68, 101, 108, 105, 118, 101, 114, 121, 32, 40, 69, 97, 114, 108, 121, 41>>
\* "Target Delivery (Late)"
TARGET_DELIVERY_LATE_COLUMN_NAME == <<84, 97, 114, 103, 101, 116, 32, 68, 101, 108, 105, 118, 101, 114, 121, 32, 40, 76, 97, 116, 101, 41>>
\* "Target Ship (Early)"
TARGET_SHIP_EARLY_COLUMN_NAME == <<84, 97, 114, 103, 101, 116, 32, 83, 104, 105, 112, 32, 40, 69, 97, 114, 108, 121, 41>>
\* "Target Ship (Late)"
TARGET_SHIP_LATE_COLUMN_NAME == <<84, 97, 114, 103, 101, 116, 32, 83, 104, 105, 112, 32, 40, 76, 97, 116, 101, 41>>
\* "Consignee"
CONSIGNEE_COLUMN_NAME == <<67, 111, 110, 115, 105, 103, 110, 101, 101>>
\* "Consignee Name"
CONSIGNEE_NAME_COLUMN_NAME == <<67, 111, 110, 115, 105, 103, 110, 101, 101, 32, 78, 97, 109, 101>>
\* "Consignee Address"
CONSIGNEE_ADDRESS_COLUMN_NAME == <<67, 111, 110, 115, 105, 103, 110, 101, 101, 32, 65, 100, 100, 114, 101, 115, 115>>
\* "Consignee City"
CONSIGNEE_CITY_COLUMN_NAME == <<67, 111, 110, 115, 105, 103, 110, 101, 101, 32, 67, 105, 116, 121>>
\* "Consignee State"
CONSIGNEE_STATE_COLUMN_NAME == <<67, 111, 110, 115, 105, 103, 110, 101, 101, 32, 83, 116, 97, 116, 101>>
\* "Consignee Postal Code"
CONSIGNEE_POSTAL_CODE_COLUMN_NAME == <<67, 111, 110, 115, 105, 103, 110, 101, 101, 32, 80, 111, 115, 116, 97, 108, 32, 67, 111, 100, 101>>
\* "Consignee Country"
CONSIGNEE_COUNTRY_COLUMN_NAME == <<67, 111, 110, 115, 105, 103, 110, 101, 101, 32, 67, 111, 117, 110, 116, 114, 121>>
\* "Equipment Codes"
EQUIPMENT_CODES_COLUMN_NAME == <<69, 113, 117, 105, 112, 109, 101, 110, 116, 32, 67, 111, 100, 101, 115>>
\* "Ref: Temperature Range"
TEMPERATURE_RANGE_COLUMN_NAME == <<82, 101, 102, 58, 32, 84, 101, 109, 112, 101, 114, 97, 116, 117, 114, 101, 32, 82, 97, 110, 103, 101>>

\* a mapping that binds the Consignee and Target Delivery columns in any mode
ColumnMappingDeliveryOnly(m) ==
    [job_number |-> JOB_NUMBER_COLUMN_NAME,
     hawb |-> HAWB_COLUMN_NAME,
     quantity |-> QUANTITY_COLUMN_NAME,
     equipment_codes |-> EQUIPMENT_CODES_COLUMN_NAME,
     temperature_range |-> TEMPERATURE_RANGE_COLUMN_NAME,
     target_early |-> TARGET_DELIVERY_EARLY_COLUMN_NAME,
     target_late |-> TARGET_DELIVERY_LATE_COLUMN_NAME,
     info |-> CONSIGNEE_COLUMN_NAME,
     name |-> CONSIGNEE_NAME_COLUMN_NAME,
     address |-> CONSIGNEE_ADDRESS_COLUMN_NAME,
     city |-> CONSIGNEE_CITY_COLUMN_NAME,
     state |-> CONSIGNEE_STATE_COLUMN_NAME,
     postal_code |-> CONSIGNEE_POSTAL_CODE_COLUMN_NAME,
     country |-> CONSIGNEE_COUNTRY_COLUMN_NAME]

\* ColumnMapping::new
ColumnMapping(m) ==
    [job_number |-> JOB_NUMBER_COLUMN_NAME,
     hawb |-> HAWB_COLUMN_NAME,
     quantity |-> QUANTITY_COLUMN_NAME,
     equipment_codes |-> EQUIPMENT_CODES_COLUMN_NAME,
     temperature_range |-> TEMPERATURE_RANGE_COLUMN_NAME,
     target_early |-> IF m = "Delivery" THEN TARGET_DELIVERY_EARLY_COLUMN_NAME ELSE TARGET_SHIP_EARLY_COLUMN_NAME,
     target_late |-> IF m = "Delivery" THEN TARGET_DELIVERY_LATE_COLUMN_NAME ELSE TARGET_SHIP_LATE_COLUMN_NAME,
     info |-> IF m = "Delivery" THEN CONSIGNEE_COLUMN_NAME ELSE SHIPPER_COLUMN_NAME,
     name |-> IF m = "Delivery" THEN CONSIGNEE_NAME_COLUMN_NAME ELSE SHIPPER_NAME_COLUMN_NAME,
     address |-> IF m = "Delivery" THEN CONSIGNEE_ADDRESS_COLUMN_NAME ELSE SHIPPER_ADDRESS_COLUMN_NAME,
     city |-> IF m = "Delivery" THEN CONSIGNEE_CITY_COLUMN_NAME ELSE SHIPPER_CITY_COLUMN_NAME,
     state |-> IF m = "Delivery" THEN CONSIGNEE_STATE_COLUMN_NAME ELSE SHIPPER_STATE_COLUMN_NAME,
     postal_code |-> IF m = "Delivery" THEN CONSIGNEE_POSTAL_CODE_COLUMN_NAME ELSE SHIPPER_POSTAL_CODE_COLUMN_NAME,
     country |-> IF m = "Delivery" THEN CONSIGNEE_COUNTRY_COLUMN_NAME ELSE SHIPPER_COUNTRY_COLUMN_NAME]

(***************************************************************************)
(* Cells.  A sheet cell (calamine DataType) and a table cell (polars       *)
(* AnyValue) are records tagged by their variant.  A floating-point number *)
(* is held in tenths (tenths = 10 * value), the precision of the inputs.   *)
(***************************************************************************)
StringCell(s) == [type |-> "String", s |-> s]
FloatCell(t) == [type |-> "Float", tenths |-> t]
IntCell(i) == [type |-> "Int", i |-> i]
BoolCell(b) == [type |-> "Bool", b |-> b]
ErrorCell == [type |-> "Error"]
EmptyCell == [type |-> "Empty"]

Utf8Owned(s) == [type |-> "Utf8Owned", s |-> s]
Float64(t) == [type |-> "Float64", tenths |-> t]
Int64(i) == [type |-> "Int64", i |-> i]
Boolean(b) == [type |-> "Boolean", b |-> b]
Null == [type |-> "Null"]

\* `c as u8`
AsU8(c) == c % 256

\* decode_text keeping the null code units
decode_text_keep_nulls(input) == [i \in 1..Len(input) |-> AsU8(input[i])]

\* decode_text: the UTF-16 code units, without the zero ones, each cut to 8 bits
decode_text(input) ==
    LET NotNull(c) == c # 0
        kept == SelectSeq(input, NotNull)
    IN  [i \in 1..Len(kept) |-> AsU8(kept[i])]

\* the decimal digits of a natural number
RECURSIVE NatToString(_)
NatToString(n) ==
    IF n < 10 THEN <<CharZero + n>>
    ELSE NatToString(n \div 10) \o <<CharZero + (n % 10)>>

IntToString(i) == IF i < 0 THEN <<CharMinus>> \o NatToString(-i) ELSE NatToString(i)

\* Display of a floating-point number held in tenths: "5", "12.5", "-0.5"
FloatToString(t) ==
    LET a == Abs(t)
        sign == IF t < 0 THEN <<CharMinus>> ELSE <<>>
        frac == IF a % 10 = 0 THEN <<>> ELSE <<CharDot, CharZero + (a % 10)>>
    IN  sign \o NatToString(a \div 10) \o frac

\* "true", "false", "null"
TrueText == <<116, 114, 117, 101>>
FalseText == <<102, 97, 108, 115, 101>>
NullText == <<110, 117, 108, 108>>

\* "#N/A": the error an error cell of the sheets modelled holds
ErrorText == <<35, 78, 47, 65>>

\* cell.to_string() of a sheet cell (calamine's Display)
DataTypeToString(cell) ==
    CASE cell.type = "String" -> cell.s
      [] cell.type = "Float" -> FloatToString(cell.tenths)
      [] cell.type = "Int" -> IntToString(cell.i)
      [] cell.type = "Bool" -> IF cell.b THEN TrueText ELSE FalseText
      [] cell.type = "Error" -> ErrorText
      [] OTHER -> <<>>

\* cell.to_string() of a table cell (polars' Display)
AnyValueToString(cell) ==
    CASE cell.type = "Utf8Owned" -> cell.s
      [] cell.type = "Float64" -> FloatToString(cell.tenths)
      [] cell.type = "Int64" -> IntToString(cell.i)
      [] cell.type = "Boolean" -> IF cell.b THEN TrueText ELSE FalseText
      [] OTHER -> NullText

\* data_type_to_any_value
data_type_to_any_value(data) ==
    CASE data.type = "String" -> Utf8Owned(decode_text(data.s))
      [] data.type = "Float" -> Float64(data.tenths)
      [] data.type = "Int" -> Int64(data.i)
      [] data.type = "Bool" -> Boolean(data.b)
      [] data.type = "Error" -> Null
      [] data.type = "Empty" -> Null

(***************************************************************************)
(* Table builder (file_parsing.rs).  A range is the sequence of the rows   *)
(* of a sheet, a row the sequence of its cells.  A DataFrame is            *)
(* [names, columns]: the column names and, in the same order, the columns. *)
(***************************************************************************)
DataFrame(names, columns) == [names |-> names, columns |-> columns]

\* DataFrame::height
Height(df) == IF Len(df.columns) = 0 THEN 0 ELSE Len(df.columns[1])

HasColumn(df, name) == \E i \in 1..Len(df.names) : df.names[i] = name

ColumnIndex(df, name) == CHOOSE i \in 1..Len(df.names) : df.names[i] = name

\* DataFrame::column
Column(df, name) ==
    IF HasColumn(df, name) THEN Ok(df.columns[ColumnIndex(df, name)])
    ELSE Err([kind |-> "PolarsError", what |-> "ColumnNotFound", name |-> name])

\* get_header_names
get_header_names(range) ==
    IF Len(range) = 0 THEN Err([kind |-> "NoHeadersFound"])
    ELSE LET HeaderName(cell) == IF cell.type = "String" THEN decode_text(cell.s)
                                 ELSE decode_text(DataTypeToString(cell))
         IN  Ok([i \in 1..Len(range[1]) |-> HeaderName(range[1][i])])

\* DataFrame::new: the named columns as a table, unless two share a name
NewDataFrame(names, columns) ==
    IF \E i, j \in 1..Len(names) : i # j /\ names[i] = names[j]
    THEN Err([kind |-> "PolarsError", what |-> "Duplicate", name |-> <<>>])
    ELSE Ok(DataFrame(names, columns))

\* the columns of parse_sheet with the header row among the data
SheetColumnsWithHeader(range, header_names) ==
    LET Cell(row, col_idx) == IF col_idx <= Len(row) THEN data_type_to_any_value(row[col_idx])
                              ELSE Null
    IN  [col_idx \in 1..Len(header_names) |->
            [r \in 1..Len(range) |-> Cell(range[r], col_idx)]]

\* the columns of parse_sheet: for every header the cells below it, a row
\* too short giving Null
SheetColumns(range, header_names) ==
    LET Cell(row, col_idx) == IF col_idx <= Len(row) THEN data_type_to_any_value(row[col_idx])
                              ELSE Null
    IN  [col_idx \in 1..Len(header_names) |->
            [r \in 1..(Len(range) - 1) |-> Cell(range[r + 1], col_idx)]]

\* parse_sheet once the header names are read
SheetDataFrame(range, headers) ==
    IF ~headers.ok THEN headers
    ELSE NewDataFrame(headers.value, SheetColumns(range, headers.value))

\* parse_sheet
parse_sheet(range) == SheetDataFrame(range, get_header_names(range))

\* workbook.worksheet_range(&sheet_names[0]): the range of the first sheet, or
\* the error of a sheet that cannot be read ("error") or is not found ("missing")
worksheet_range(workbook) ==
    CASE workbook.read = "ok" -> Ok(workbook.range)
      [] workbook.read = "error" -> Err([kind |-> "CalamineError", what |-> "worksheet_range"])
      [] workbook.read = "missing" -> Err([kind |-> "CalamineError", what |-> "Sheet not found"])

\* parse_xls_file_tms once the range of the sheet is asked for
SheetOfRange(range) == IF ~range.ok THEN range ELSE parse_sheet(range.value)

\* parse_xls_file_tms reading the first sheet before it counts the sheets
parse_xls_file_tms_read_first(workbook) ==
    IF ~workbook.opens THEN Err([kind |-> "CalamineError"])
    ELSE IF ~SheetOfRange(worksheet_range(workbook)).ok THEN SheetOfRange(worksheet_range(workbook))
    ELSE IF workbook.sheets # 1
        THEN Err([kind |-> "InvalidSheetCount", expected |-> 1, actual |-> workbook.sheets])
    ELSE SheetOfRange(worksheet_range(workbook))

\* parse_xls_file_tms; a workbook is [opens, sheets, read, range]: whether the
\* file opens as a workbook, the number of its sheets, how reading its first
\* sheet ends, the range of that sheet
parse_xls_file_tms(workbook) ==
    IF ~workbook.opens THEN Err([kind |-> "CalamineError"])
    ELSE IF workbook.sheets # 1
        THEN Err([kind |-> "InvalidSheetCount", expected |-> 1, actual |-> workbook.sheets])
    ELSE SheetOfRange(worksheet_range(workbook))

\* DataFrame::select
Select(df, names) ==
    IF \E i \in 1..Len(names) : ~HasColumn(df, names[i])
    THEN LET first == CHOOSE i \in 1..Len(names) :
                          ~HasColumn(df, names[i]) /\ \A j \in 1..(i - 1) : HasColumn(df, names[j])
         IN  Err([kind |-> "PolarsError", what |-> "ColumnNotFound", name |-> names[first]])
    ELSE Ok(DataFrame(names, [i \in 1..Len(names) |-> df.columns[ColumnIndex(df, names[i])]]))

\* select_columns_cl_view asking only for the columns a JobRow is filled from
select_columns_cl_view_used_only(df, mapping) ==
    Select(df, <<mapping.job_number, mapping.quantity, mapping.equipment_codes,
                 mapping.target_early, mapping.target_late, mapping.name,
                 mapping.address, mapping.city, mapping.postal_code, mapping.country>>)

\* select_columns_cl_view
select_columns_cl_view(df, mapping) ==
    Select(df, <<mapping.job_number, mapping.quantity, mapping.equipment_codes,
                 mapping.target_early, mapping.target_late, mapping.info, mapping.name,
                 mapping.address, mapping.city, mapping.state, mapping.postal_code,
                 mapping.country>>)

\* select_columns_shipper_site
select_columns_shipper_site(df, mapping) ==
    Select(df, <<mapping.job_number, mapping.hawb, mapping.temperature_range>>)

(***************************************************************************)
(* Table joiner: cl_view.inner_join(&shipper_site, ["Load #"], ["Load #"]) *)
(***************************************************************************)
\* the join pairing every left row with the first right row only
JoinPairsFirstMatch(left_keys, right_keys) ==
    LET Matched(i) == \E j \in 1..Len(right_keys) : left_keys[i] = right_keys[j]
        First(i) == CHOOSE j \in 1..Len(right_keys) :
                        /\ left_keys[i] = right_keys[j]
                        /\ \A k \in 1..(j - 1) : left_keys[i] # right_keys[k]
        rows == SelectSeq([i \in 1..Len(left_keys) |-> i], Matched)
    IN  [k \in 1..Len(rows) |-> <<rows[k], First(rows[k])>>]

\* the pairs <<left row, right row>> with the same key, left rows in order
JoinPairs(left_keys, right_keys) ==
    LET n == Len(left_keys)
        m == Len(right_keys)
        all == [k \in 1..(n * m) |-> <<((k - 1) \div m) + 1, ((k - 1) % m) + 1>>]
        Match(p) == left_keys[p[1]] = right_keys[p[2]]
    IN  SelectSeq(all, Match)

\* the joined table of the row pairs: the left columns, then the right columns
\* other than the key
JoinRows(left, right, right_names, pairs) ==
    Ok(DataFrame(left.names \o right_names,
                 [c \in 1..Len(left.names) |->
                     [k \in 1..Len(pairs) |-> left.columns[c][pairs[k][1]]]]
                 \o [c \in 1..Len(right_names) |->
                        [k \in 1..Len(pairs) |->
                            right.columns[ColumnIndex(right, right_names[c])][pairs[k][2]]]]))

\* the join once the key columns are read
JoinOnKeys(left, right, key, lk, rk) ==
    LET NotKey(name) == name # key
    IN  IF ~lk.ok THEN lk
        ELSE IF ~rk.ok THEN rk
        ELSE JoinRows(left, right, SelectSeq(right.names, NotKey), JoinPairs(lk.value, rk.value))

InnerJoin(left, right, key) == JoinOnKeys(left, right, key, Column(left, key), Column(right, key))

(***************************************************************************)
(* Field extractors (job_row.rs)                                           *)
(***************************************************************************)
\* TemperatureRange::from_str
TemperatureRange_from_str(value) ==
    CASE value = <<70, 114, 111, 122, 101, 110, 32, 68, 114, 121, 32, 73, 99, 101, 32, 45, 56, 48, 67, 32, 116, 111, 32, 45, 50, 48, 67>> -> Ok("DryIce")   \* "Frozen Dry Ice -80C to -20C"
      [] value = <<68, 101, 101, 112, 32, 70, 114, 111, 122, 101, 110, 32, 68, 114, 121, 32, 73, 99, 101, 32, 45, 55, 48, 67, 32, 91, 43, 47, 45, 49, 48, 67, 93>> -> Ok("DryIce")   \* "Deep Frozen Dry Ice -70C [+/-10C]"
      [] value = <<67, 114, 121, 111, 103, 101, 110, 105, 99, 115, 32, 45, 49, 57, 48, 67, 32, 116, 111, 32, 45, 49, 53, 48, 67>> -> Ok("DryShipper")   \* "Cryogenics -190C to -150C"
      [] value = <<82, 101, 102, 114, 105, 103, 101, 114, 97, 116, 101, 100, 32, 43, 50, 67, 32, 116, 111, 32, 43, 56, 67>> -> Ok("Refrigerated")   \* "Refrigerated +2C to +8C"
      [] value = <<67, 111, 110, 116, 114, 111, 108, 108, 101, 100, 32, 65, 109, 98, 105, 101, 110, 116, 32, 43, 49, 53, 67, 32, 116, 111, 32, 43, 50, 53, 67>> -> Ok("ControlledAmbient")   \* "Controlled Ambient +15C to +25C"
      [] value = <<70, 114, 111, 122, 101, 110, 32, 45, 50, 53, 67, 32, 116, 111, 32, 45, 49, 53, 67>> -> Ok("Frozen")   \* "Frozen -25C to -15C"
      [] value = <<65, 109, 98, 105, 101, 110, 116>> -> Ok("Ambient")   \* "Ambient"
      [] value = <<70, 114, 111, 122, 101, 110, 32, 45, 53, 48, 67, 32, 32, 91, 43, 47, 45, 49, 48, 67, 93>> -> Ok("NonSOP")   \* "Frozen -50C  [+/-10C]"
      [] OTHER -> Err([kind |-> "StringToTemperatureRange", text |-> value])

\* char::is_whitespace, for the characters decode_text can produce
IsWhitespace(c) == c \in {9, 10, 11, 12, 13, 32, 133, 160}

\* str::trim
Trim(s) ==
    LET keep == {i \in 1..Len(s) : ~IsWhitespace(s[i])}
    IN  IF keep = {} THEN <<>>
        ELSE SubSeq(s, CHOOSE i \in keep : \A j \in keep : i <= j,
                       CHOOSE i \in keep : \A j \in keep : j <= i)

\* str::split(",")
RECURSIVE Split(_, _)
Split(s, sep) ==
    LET at == {i \in 1..Len(s) : s[i] = sep}
    IN  IF at = {} THEN <<s>>
        ELSE LET first == CHOOSE i \in at : \A j \in at : i <= j
             IN  <<SubSeq(s, 1, first - 1)>> \o Split(SubSeq(s, first + 1, Len(s)), sep)

\* extract_temperature_ranges matching the segments as they are cut
extract_temperature_ranges_untrimmed(input) ==
    IF Len(input) = 0 THEN <<"Ambient">>
    ELSE LET splitted == Split(input, CharComma)
             Tag(s) == LET r == TemperatureRange_from_str(s)
                       IN  IF r.ok THEN r.value ELSE "Invalid"
         IN  [i \in 1..Len(splitted) |-> Tag(splitted[i])]

\* extract_temperature_ranges
extract_temperature_ranges(input) ==
    IF Len(input) = 0 THEN <<"Ambient">>
    ELSE LET splitted == Split(input, CharComma)
             Tag(s) == LET r == TemperatureRange_from_str(Trim(s))
                       IN  IF r.ok THEN r.value ELSE "Invalid"
         IN  [i \in 1..Len(splitted) |-> Tag(splitted[i])]

\* extract_column_as_temperature_ranges
extract_column_as_temperature_ranges(df, column_name) ==
    LET column == Column(df, column_name)
        Ranges(cell) == IF cell.type = "Utf8Owned" THEN extract_temperature_ranges(cell.s)
                        ELSE <<"Ambient">>
    IN  IF ~column.ok THEN column ELSE Ok([i \in 1..Len(column.value) |-> Ranges(column.value[i])])

\* extract_column_as_string leaving out the cells that hold nothing
extract_column_as_string_skipping_nulls(df, column_name) ==
    LET column == Column(df, column_name)
        Held(cell) == cell.type # "Null"
        Text(cell) == IF cell.type = "Utf8Owned" THEN cell.s ELSE AnyValueToString(cell)
    IN  IF ~column.ok THEN column
        ELSE Ok([i \in 1..Len(SelectSeq(column.value, Held)) |->
                    Text(SelectSeq(column.value, Held)[i])])

\* extract_column_as_string
extract_column_as_string(df, column_name) ==
    LET column == Column(df, column_name)
        Text(cell) == IF cell.type = "Utf8Owned" THEN cell.s ELSE AnyValueToString(cell)
    IN  IF ~column.ok THEN column ELSE Ok([i \in 1..Len(column.value) |-> Text(column.value[i])])

IsDigit(c) == c >= CharZero /\ c <= CharNine

\* the value of a sequence of decimal digits
RECURSIVE DigitsValue(_)
DigitsValue(s) ==
    IF Len(s) = 0 THEN 0
    ELSE DigitsValue(SubSeq(s, 1, Len(s) - 1)) * 10 + (s[Len(s)] - CharZero)

\* the number of the digits before and after the '.', in tenths; one of the
\* two parts may be empty, not both
ParseDecimalParts(negative, int_part, frac_part) ==
    IF /\ \A i \in 1..Len(int_part) : IsDigit(int_part[i])
       /\ \A i \in 1..Len(frac_part) : IsDigit(frac_part[i])
       /\ Len(int_part) + Len(frac_part) > 0
    THEN Ok((IF negative THEN -1 ELSE 1)
                * (DigitsValue(int_part) * 10
                      + (IF Len(frac_part) > 0 THEN frac_part[1] - CharZero ELSE 0)))
    ELSE Err("invalid float literal")

\* the position of the first '.', or one past the end
DotPosition(body) ==
    LET dots == {i \in 1..Len(body) : body[i] = CharDot}
    IN  IF dots = {} THEN Len(body) + 1 ELSE CHOOSE i \in dots : \A j \in dots : i <= j

\* the unsigned literal split at its '.'
ParseDecimalAt(negative, body, dot) ==
    ParseDecimalParts(negative, SubSeq(body, 1, dot - 1), SubSeq(body, dot + 1, Len(body)))

\* str::parse::<f32> of a decimal literal: sign, digits, '.', digits; the value
\* in tenths.  (Exponents, "inf" and "nan" are outside the inputs modelled.)
ParseFloat(s) ==
    IF Len(s) > 0 /\ s[1] \in {CharPlus, CharMinus}
    THEN ParseDecimalAt(s[1] = CharMinus, Tail(s), DotPosition(Tail(s)))
    ELSE ParseDecimalAt(FALSE, s, DotPosition(s))

\* any_value_to_numeric accepting every cell: a cell that is no number counts 0
any_value_to_numeric_lenient(value) ==
    CASE value.type = "Utf8Owned" ->
            LET r == ParseFloat(value.s) IN IF r.ok THEN r ELSE Ok(0)
      [] value.type = "Int64" -> Ok(value.i * 10)
      [] value.type = "Float64" -> Ok(value.tenths)
      [] OTHER -> Ok(0)

\* any_value_to_numeric::<f32>; the number in tenths
any_value_to_numeric(value) ==
    CASE value.type = "Utf8Owned" ->
            LET r == ParseFloat(value.s)
            IN  IF r.ok THEN r
                ELSE Err([kind |-> "AnyValueToNumericParse", variant |-> "StringParseError",
                          text |-> AnyValueToString(value)])
      [] value.type = "Int64" -> Ok(value.i * 10)
      [] value.type = "Float64" -> Ok(value.tenths)
      [] OTHER -> Err([kind |-> "AnyValueToNumericParse", variant |-> "InvalidType",
                       text |-> AnyValueToString(value)])

\* a cast rounding to the nearest integer
AsI32Rounded(tenths) ==
    IF tenths >= 0 THEN (tenths + 5) \div 10 ELSE -((5 - tenths) \div 10)

\* `num as i32`: the fraction is dropped, toward zero
AsI32(tenths) == TruncDiv(tenths, 10)

\* extract_column_as_i32: the numbers of the column, or the error of its first
\* failing cell
extract_column_as_i32(df, column_name) ==
    LET column == Column(df, column_name)
    IN  IF ~column.ok THEN column
        ELSE LET cells == [i \in 1..Len(column.value) |-> any_value_to_numeric(column.value[i])]
                 failed == {i \in 1..Len(cells) : ~cells[i].ok}
                 Number(r) == AsI32(r.value)
             IN  IF failed = {} THEN Ok([i \in 1..Len(cells) |-> Number(cells[i])])
                 ELSE cells[CHOOSE i \in failed : \A j \in failed : i <= j]

(***************************************************************************)
(* NaiveDateTime::parse_from_str(text, "%m/%d/%Y %H:%M")                   *)
(***************************************************************************)
\* the first position at or after i that holds no whitespace
RECURSIVE SkipWhitespace(_, _)
SkipWhitespace(s, i) ==
    IF i >= 1 /\ i <= Len(s) /\ IsWhitespace(s[i]) THEN SkipWhitespace(s, i + 1) ELSE i

\* the number of digits at position i, at most max
RECURSIVE CountDigits(_, _, _)
CountDigits(s, i, max) ==
    IF max > 0 /\ i >= 1 /\ i <= Len(s) /\ IsDigit(s[i]) THEN 1 + CountDigits(s, i + 1, max - 1) ELSE 0

\* a numeric item of at most max digits, after optional whitespace, read at
\* position i: [ok, value, next]
ScanNumber(s, i, max) ==
    LET from == SkipWhitespace(s, i)
        n == CountDigits(s, from, max)
    IN  [ok |-> i > 0 /\ n > 0, value |-> DigitsValue(SubSeq(s, from, from + n - 1)), next |-> from + n]

\* a literal character expected at position i: the next position, or 0
ScanLiteral(s, i, c) == IF i > 0 /\ i <= Len(s) /\ s[i] = c THEN i + 1 ELSE 0

IsLeapYear(y) == (y % 4 = 0 /\ y % 100 # 0) \/ y % 400 = 0

DaysInMonth(y, m) ==
    IF m = 2 THEN (IF IsLeapYear(y) THEN 29 ELSE 28)
    ELSE IF m \in {4, 6, 9, 11} THEN 30 ELSE 31

\* days from 1970-01-01 to the civil date y-m-d
DaysFromCivil(y, m, d) ==
    LET y1 == IF m <= 2 THEN y - 1 ELSE y
        era == y1 \div 400
        yoe == y1 - era * 400
        mp == IF m > 2 THEN m - 3 ELSE m + 9
        doy == ((153 * mp + 2) \div 5) + d - 1
        doe == yoe * 365 + (yoe \div 4) - (yoe \div 100) + doy
    IN  era * 146097 + doe - 719468

\* the items of the format "%m/%d/%Y %H:%M" (an unsigned year)
NumericItem(max) == [kind |-> "Numeric", max |-> max]
LiteralItem(c) == [kind |-> "Literal", c |-> c]
SpaceItem == [kind |-> "Space"]
DateFormat ==
    <<NumericItem(2), LiteralItem(CharSlash), NumericItem(2), LiteralItem(CharSlash),
      NumericItem(4), SpaceItem, NumericItem(2), LiteralItem(CharColon), NumericItem(2)>>

\* the text read item by item from position i (0 once an item failed): the
\* numbers read, in order; input left over is an error
RECURSIVE ParseItems(_, _, _, _)
RECURSIVE ParseNumber(_, _, _, _)
ParseItems(s, i, items, fields) ==
    IF i = 0 THEN Err("no match")
    ELSE IF Len(items) = 0
        THEN (IF i = Len(s) + 1 THEN Ok(fields) ELSE Err("no match"))
    ELSE CASE items[1].kind = "Numeric" ->
                  ParseNumber(s, ScanNumber(s, i, items[1].max), Tail(items), fields)
           [] items[1].kind = "Literal" ->
                  ParseItems(s, ScanLiteral(s, i, items[1].c), Tail(items), fields)
           [] items[1].kind = "Space" ->
                  ParseItems(s, SkipWhitespace(s, i), Tail(items), fields)

ParseNumber(s, number, items, fields) ==
    IF number.ok THEN ParseItems(s, number.next, items, Append(fields, number.value))
    ELSE Err("no match")

\* the date of the fields <<month, day, year, hour, minute>>, each in its range
DateOfFields(parsed) ==
    IF /\ parsed.ok
       /\ parsed.value[1] \in 1..12
       /\ parsed.value[2] \in 1..DaysInMonth(parsed.value[3], parsed.value[1])
       /\ parsed.value[4] \in 0..23
       /\ parsed.value[5] \in 0..59
    THEN Ok(DateTime(DaysFromCivil(parsed.value[3], parsed.value[1], parsed.value[2]) * 86400
                        + parsed.value[4] * 3600 + parsed.value[5] * SECS_PER_MINUTE, 0))
    ELSE Err("no match")

\* parse_from_str with the format "%m/%d/%Y %H:%M"
ParseDateTime(s) == DateOfFields(ParseItems(s, 1, DateFormat, <<>>))

\* any_value_to_naive_date_time(value, "%m/%d/%Y %H:%M")
any_value_to_naive_date_time(value) ==
    IF value.type = "Utf8Owned"
    THEN LET d == ParseDateTime(value.s)
         IN  IF d.ok THEN d
             ELSE Err([kind |-> "AnyValueToNaiveDateTimeParse", variant |-> "ParseError",
                       text |-> AnyValueToString(value)])
    ELSE Err([kind |-> "AnyValueToNaiveDateTimeParse", variant |-> "InvalidType",
              text |-> AnyValueToString(value)])

\* unwrap_or with a default that is not the epoch
UnwrapOrNextDay(r) == IF r.ok THEN r.value ELSE DateTime(86400, 0)

\* Result::unwrap_or_default for a date
UnwrapOrDefaultDate(r) == IF r.ok THEN r.value ELSE EpochDate

(***************************************************************************)
(* JobRow assembler (job_row.rs)                                           *)
(***************************************************************************)
\* vec.get(index).unwrap_or(default)
GetOr(vec, index, default) == IF index <= Len(vec) THEN vec[index] ELSE default

\* the dates of a column, the first date-parse error passed on to the caller
ExtractDatesStrict(df, column_name) ==
    LET column == Column(df, column_name)
    IN  IF ~column.ok THEN column
        ELSE LET cells == [i \in 1..Len(column.value) |-> any_value_to_naive_date_time(column.value[i])]
                 failed == {i \in 1..Len(cells) : ~cells[i].ok}
                 Value(r) == r.value
             IN  IF failed = {} THEN Ok([i \in 1..Len(cells) |-> Value(cells[i])])
                 ELSE cells[CHOOSE i \in failed : \A j \in failed : i <= j]

\* the dates of a column: every cell parsed, a failure replaced by the default
ExtractDates(df, column_name) ==
    LET column == Column(df, column_name)
        Date(cell) == UnwrapOrDefaultDate(any_value_to_naive_date_time(cell))
    IN  IF ~column.ok THEN column ELSE Ok([i \in 1..Len(column.value) |-> Date(column.value[i])])

\* the row with the early date in place of the calculated date
NewJobRowNoMiddle(m, c, index) ==
    LET early == GetOr(c.early_dates, index, EpochDate)
        late == GetOr(c.late_dates, index, EpochDate)
    IN  [mode |-> m,
         job_number |-> GetOr(c.job_numbers, index, <<>>),
         hawb_number |-> GetOr(c.hawb_numbers, index, <<>>),
         temperature_ranges |-> GetOr(c.temperature_ranges, index, <<"Invalid">>),
         quantities |-> GetOr(c.quantities, index, -1),
         address |-> GetOr(c.addresses, index, <<>>),
         postal_code |-> GetOr(c.postal_codes, index, <<>>),
         city |-> GetOr(c.cities, index, <<>>),
         country |-> GetOr(c.countries, index, <<>>),
         equipment |-> GetOr(c.equipment, index, <<>>),
         tolerance |-> calculate_tolerance(early, late),
         early_date |-> early,
         late_date |-> late,
         calculated_date |-> early,
         contact_name |-> GetOr(c.contact_names, index, <<>>)]

\* the body of the assembly loop: JobRow::new(...) for one row index
NewJobRow(m, c, index) ==
    [mode |-> m,
     job_number |-> GetOr(c.job_numbers, index, <<>>),
     hawb_number |-> GetOr(c.hawb_numbers, index, <<>>),
     temperature_ranges |-> GetOr(c.temperature_ranges, index, <<"Invalid">>),
     quantities |-> GetOr(c.quantities, index, -1),
     address |-> GetOr(c.addresses, index, <<>>),
     postal_code |-> GetOr(c.postal_codes, index, <<>>),
     city |-> GetOr(c.cities, index, <<>>),
     country |-> GetOr(c.countries, index, <<>>),
     equipment |-> GetOr(c.equipment, index, <<>>),
     tolerance |-> calculate_tolerance(GetOr(c.early_dates, index, EpochDate),
                                       GetOr(c.late_dates, index, EpochDate)),
     early_date |-> GetOr(c.early_dates, index, EpochDate),
     late_date |-> GetOr(c.late_dates, index, EpochDate),
     calculated_date |-> middle_between_dates(GetOr(c.early_dates, index, EpochDate),
                                              GetOr(c.late_dates, index, EpochDate)),
     contact_name |-> GetOr(c.contact_names, index, <<>>)]

\* the column extractions of from_dataframe, in the order of the code
ExtractColumns(df, column_mapping) ==
    <<extract_column_as_string(df, column_mapping.job_number),
      extract_column_as_string(df, column_mapping.hawb),
      extract_column_as_temperature_ranges(df, column_mapping.temperature_range),
      extract_column_as_string(df, column_mapping.address),
      extract_column_as_i32(df, column_mapping.quantity),
      extract_column_as_string(df, column_mapping.postal_code),
      extract_column_as_string(df, column_mapping.city),
      extract_column_as_string(df, column_mapping.country),
      extract_column_as_string(df, column_mapping.equipment_codes),
      extract_column_as_string(df, column_mapping.name),
      ExtractDates(df, column_mapping.target_early),
      ExtractDates(df, column_mapping.target_late)>>

\* the vectors the assembly loop reads, by the names of the code
ExtractedVectors(steps) ==
    [job_numbers |-> steps[1].value,
     hawb_numbers |-> steps[2].value,
     temperature_ranges |-> steps[3].value,
     addresses |-> steps[4].value,
     quantities |-> steps[5].value,
     postal_codes |-> steps[6].value,
     cities |-> steps[7].value,
     countries |-> steps[8].value,
     equipment |-> steps[9].value,
     contact_names |-> steps[10].value,
     early_dates |-> steps[11].value,
     late_dates |-> steps[12].value]

\* the assembly loop over 0..total_elements
AssembleRows(m, c, total_elements) ==
    Ok([index \in 1..total_elements |-> NewJobRow(m, c, index)])

\* from_dataframe once the columns are extracted: the error of the first
\* extraction that failed, else the rows
RowsOfColumns(m, steps, total_elements) ==
    LET failed == {i \in 1..Len(steps) : ~steps[i].ok}
    IN  IF failed # {} THEN steps[CHOOSE i \in failed : \A j \in failed : i <= j]
        ELSE AssembleRows(m, ExtractedVectors(steps), total_elements)

\* JobRow::from_dataframe
from_dataframe(df, m) == RowsOfColumns(m, ExtractColumns(df, ColumnMapping(m)), Height(df))

(***************************************************************************)
(* The request (file_parsing.rs, main.rs)                                  *)
(***************************************************************************)
\* create_job_rows from the joined table on
RowsOfJoined(joined, m) ==
    IF ~joined.ok THEN joined ELSE from_dataframe(joined.value, m)

\* create_job_rows from the selected columns on
RowsOfSelected(cl_selected, shipper_selected, m) ==
    IF ~cl_selected.ok THEN cl_selected
    ELSE IF ~shipper_selected.ok THEN shipper_selected
    ELSE RowsOfJoined(InnerJoin(cl_selected.value, shipper_selected.value, JOB_NUMBER_COLUMN_NAME), m)

\* create_job_rows looking at the Shipper/Site table before the CL-View table
RowsOfParsedShipperFirst(cl_parsed, shipper_parsed, m) ==
    IF ~shipper_parsed.ok THEN shipper_parsed
    ELSE IF ~cl_parsed.ok THEN cl_parsed
    ELSE RowsOfSelected(select_columns_cl_view(cl_parsed.value, ColumnMapping(m)),
                        select_columns_shipper_site(shipper_parsed.value, ColumnMapping(m)), m)

\* create_job_rows from the parsed tables on
RowsOfParsed(cl_parsed, shipper_parsed, m) ==
    IF ~cl_parsed.ok THEN cl_parsed
    ELSE IF ~shipper_parsed.ok THEN shipper_parsed
    ELSE RowsOfSelected(select_columns_cl_view(cl_parsed.value, ColumnMapping(m)),
                        select_columns_shipper_site(shipper_parsed.value, ColumnMapping(m)), m)

\* create_job_rows
create_job_rows(cl_view_book, shipper_site_book, m) ==
    RowsOfParsed(parse_xls_file_tms(cl_view_book), parse_xls_file_tms(shipper_site_book), m)

\* parse_files once the mode is parsed
FilesOfMode(cl_view_book, shipper_site_book, parsed_mode) ==
    IF ~parsed_mode.ok THEN parsed_mode
    ELSE create_job_rows(cl_view_book, shipper_site_book, parsed_mode.value)

\* parse_files
parse_files(cl_view_book, shipper_site_book, mode_text) ==
    FilesOfMode(cl_view_book, shipper_site_book, DispoMode_from_str(mode_text))

(***************************************************************************)
(* Inputs of a request: two workbooks and a mode string                    *)
(***************************************************************************)
\* most data rows of a CL-View sheet, of a Shipper/Site sheet
MaxClRows == 2
MaxShipperRows == 2
\* most sheets of a workbook
MaxSheets == 2

Workbook(opens, sheets, range) ==
    [opens |-> opens, sheets |-> sheets, read |-> "ok", range |-> range]

\* a workbook whose first sheet cannot be read
UnreadableWorkbook(sheets, read) ==
    [opens |-> TRUE, sheets |-> sheets, read |-> read, range |-> <<>>]

\* texts of cells
J1Text == <<74, 49>>
J2Text == <<74, 50>>
\* "J1" with a null code unit inside, "j1"
J1NullText == <<74, 0, 49>>
LowerJ1Text == <<106, 49>>
H1Text == <<72, 49>>
AcmeText == <<65, 99, 109, 101>>
BoltText == <<66, 111, 108, 116>>
\* "01/01/2024 08:00", "01/01/2024 09:00", "01/01/2024 08:31"
EightText == <<48, 49, 47, 48, 49, 47, 50, 48, 50, 52, 32, 48, 56, 58, 48, 48>>
NineText == <<48, 49, 47, 48, 49, 47, 50, 48, 50, 52, 32, 48, 57, 58, 48, 48>>
EightThirtyOneText == <<48, 49, 47, 48, 49, 47, 50, 48, 50, 52, 32, 48, 56, 58, 51, 49>>
\* "01/01/2024 08:00:00" (seconds), "13/01/2024 09:00" (no such month), "bogus"
WithSecondsText == <<48, 49, 47, 48, 49, 47, 50, 48, 50, 52, 32, 48, 56, 58, 48, 48, 58, 48, 48>>
BadMonthText == <<49, 51, 47, 48, 49, 47, 50, 48, 50, 52, 32, 48, 57, 58, 48, 48>>
BogusText == <<98, 111, 103, 117, 115>>
\* "12.0", "abc"
TwelveText == <<49, 50, 46, 48>>
AbcText == <<97, 98, 99>>
\* "Ambient", "Refrigerated +2C to +8C , bogus"
AmbientText == <<65, 109, 98, 105, 101, 110, 116>>
RefrigeratedBogusText == <<82, 101, 102, 114, 105, 103, 101, 114, 97, 116, 101, 100, 32, 43, 50, 67, 32, 116, 111, 32, 43, 56, 67, 32, 44, 32, 98, 111, 103, 117, 115>>
\* "delivery"
LowerDeliveryText == <<100, 101, 108, 105, 118, 101, 114, 121>>

\* the header row of a CL-View sheet: both column families
ClHeader ==
    <<JOB_NUMBER_COLUMN_NAME, QUANTITY_COLUMN_NAME, EQUIPMENT_CODES_COLUMN_NAME,
      TARGET_DELIVERY_EARLY_COLUMN_NAME, TARGET_DELIVERY_LATE_COLUMN_NAME,
      TARGET_SHIP_EARLY_COLUMN_NAME, TARGET_SHIP_LATE_COLUMN_NAME,
      CONSIGNEE_COLUMN_NAME, CONSIGNEE_NAME_COLUMN_NAME, CONSIGNEE_ADDRESS_COLUMN_NAME,
      CONSIGNEE_CITY_COLUMN_NAME, CONSIGNEE_STATE_COLUMN_NAME,
      CONSIGNEE_POSTAL_CODE_COLUMN_NAME, CONSIGNEE_COUNTRY_COLUMN_NAME,
      SHIPPER_COLUMN_NAME, SHIPPER_NAME_COLUMN_NAME, SHIPPER_ADDRESS_COLUMN_NAME,
      SHIPPER_CITY_COLUMN_NAME, SHIPPER_STATE_COLUMN_NAME,
      SHIPPER_POSTAL_CODE_COLUMN_NAME, SHIPPER_COUNTRY_COLUMN_NAME>>

\* a data row under ClHeader; the Target Ship columns hold the window reversed
ClRow(key, quantity, early, late) ==
    <<StringCell(key), quantity, EmptyCell, early, late, late, early,
      StringCell(<<67>>), StringCell(AcmeText), StringCell(<<65>>), StringCell(<<88>>),
      EmptyCell, IntCell(12345), StringCell(<<68, 69>>),
      StringCell(<<83>>), StringCell(BoltText), StringCell(<<66>>), StringCell(<<89>>),
      EmptyCell, FloatCell(5), BoolCell(TRUE)>>

\* the header row of a Shipper/Site sheet
ShipperHeader == <<JOB_NUMBER_COLUMN_NAME, HAWB_COLUMN_NAME, TEMPERATURE_RANGE_COLUMN_NAME>>

HeaderRow(names) == [i \in 1..Len(names) |-> StringCell(names[i])]

\* the sequence s without its i-th element
Without(s, i) == SubSeq(s, 1, i - 1) \o SubSeq(s, i + 1, Len(s))

\* the sequences of at most n elements of S
SeqsUpTo(S, n) == UNION {[1..k -> S] : k \in 0..n}

QuantityCells == {FloatCell(50), FloatCell(-127), StringCell(TwelveText), StringCell(AbcText),
                  BoolCell(TRUE), EmptyCell}
EarlyCells == {StringCell(EightText), StringCell(WithSecondsText), StringCell(BogusText), EmptyCell}
LateCells == {StringCell(NineText), StringCell(EightThirtyOneText), StringCell(BadMonthText),
              FloatCell(453000)}

\* one data row with any cells in the quantity and date columns
ClRowsRich ==
    {ClRow(J1Text, q, e, l) : q \in QuantityCells, e \in EarlyCells, l \in LateCells}

\* rows of a sheet with several data rows: a sound row, a row whose quantity
\* is no number, a row whose early date does not parse
ClRowsLean ==
    {ClRow(J1Text, FloatCell(50), StringCell(EightText), StringCell(NineText)),
     ClRow(J2Text, FloatCell(50), StringCell(EightText), StringCell(NineText)),
     ClRow(J1Text, BoolCell(TRUE), StringCell(EightText), StringCell(NineText)),
     ClRow(J2Text, StringCell(TwelveText), StringCell(BogusText), StringCell(NineText))}

ShipperRows ==
    {<<StringCell(J1NullText), StringCell(H1Text), StringCell(AmbientText)>>,
     <<StringCell(J2Text), IntCell(77), StringCell(RefrigeratedBogusText)>>,
     <<StringCell(LowerJ1Text), StringCell(H1Text), EmptyCell>>}

\* workbooks that fail before their table is built, or lack a column
BrokenBooks ==
    {Workbook(FALSE, 1, <<>>), Workbook(TRUE, 1, <<>>)}
        \cup {Workbook(TRUE, n, <<>>) : n \in (0..MaxSheets) \ {1}}

GoodShipperRow == <<StringCell(J1Text), StringCell(H1Text), StringCell(AmbientText)>>

GoodClRow == ClRow(J1Text, FloatCell(50), StringCell(EightText), StringCell(NineText))

ClViewBooks ==
    {Workbook(TRUE, 1, <<HeaderRow(ClHeader)>> \o <<r>>) : r \in ClRowsRich}
        \cup {Workbook(TRUE, 1, <<HeaderRow(ClHeader)>> \o rows) : rows \in SeqsUpTo(ClRowsLean, MaxClRows)}
        \cup BrokenBooks
        \cup {Workbook(TRUE, 1, <<HeaderRow(Without(ClHeader, i)), Without(GoodClRow, i)>>) :
                 i \in 1..Len(ClHeader)}
        \cup {Workbook(TRUE, 1, <<HeaderRow(ClHeader \o <<QUANTITY_COLUMN_NAME>>),
                                  GoodClRow \o <<FloatCell(70)>>>>)}

ShipperSiteBooks ==
    {Workbook(TRUE, 1, <<HeaderRow(ShipperHeader)>> \o rows) : rows \in SeqsUpTo(ShipperRows, MaxShipperRows)}
        \cup BrokenBooks
        \cup {Workbook(TRUE, 1, <<HeaderRow(ShipperHeader), GoodShipperRow>>)}
        \cup {Workbook(TRUE, 1, <<HeaderRow(Without(ShipperHeader, i)), Without(GoodShipperRow, i)>>) :
                 i \in 1..Len(ShipperHeader)}

\* the workbooks tried with a mode string that names no mode
FewClViewBooks == BrokenBooks \cup {Workbook(TRUE, 1, <<HeaderRow(ClHeader), GoodClRow>>)}
FewShipperSiteBooks == BrokenBooks \cup {Workbook(TRUE, 1, <<HeaderRow(ShipperHeader), GoodShipperRow>>)}

InitRequest ==
    /\ phase = "request"
    /\ \/ /\ mode \in {DeliveryText, PickupText}
          /\ cl_view \in ClViewBooks
          /\ shipper_site \in ShipperSiteBooks
       \/ /\ mode \in {LowerDeliveryText, <<>>}
          /\ cl_view \in FewClViewBooks
          /\ shipper_site \in FewShipperSiteBooks
    /\ response = NoValue
    /\ date1 = NoValue
    /\ date2 = NoValue
    /\ middle = NoValue
    /\ tolerance = NoValue
    /\ call = NoValue
    /\ returned = NoValue

\* the command parse_files(cl_view, shipper_site, mode)
ParseFiles ==
    /\ phase = "request"
    /\ response = NoValue
    /\ response' = parse_files(cl_view, shipper_site, mode)
    /\ UNCHANGED <<phase, date1, date2, middle, tolerance, cl_view, shipper_site, mode,
                   call, returned>>

NextRequest == ParseFiles

SpecRequest == InitRequest /\ [][NextRequest]_vars

(***************************************************************************)
(* Inputs of a call of one function of the parsing core                    *)
(***************************************************************************)
\* most code units of a text given to decode_text
MaxTextLen == 3
\* most cells of a column given to an extractor
MaxColumnCells == 2
\* most data rows of a sheet given to parse_sheet
MaxSheetRows == 2

Call(op, arg) == [op |-> op, arg |-> arg]

\* code units of a text: U+0000, 'A', U+00E9, U+0100, U+0200, U+20AC
CodeUnits == {0, 65, 233, 256, 512, 8364}

\* "Refrigerated +2C to +8C", "Ambient,Frozen -25C to -15C"
RefrigeratedText == <<82, 101, 102, 114, 105, 103, 101, 114, 97, 116, 101, 100, 32, 43, 50, 67, 32, 116, 111, 32, 43, 56, 67>>
AmbientFrozenText == <<65, 109, 98, 105, 101, 110, 116, 44, 70, 114, 111, 122, 101, 110, 32, 45, 50, 53, 67, 32, 116, 111, 32, 45, 49, 53, 67>>
\* " Ambient ", "ambient", "Ambient,", ",", " "
PaddedAmbientText == <<32, 65, 109, 98, 105, 101, 110, 116, 32>>
LowerAmbientText == <<97, 109, 98, 105, 101, 110, 116>>
AmbientCommaText == <<65, 109, 98, 105, 101, 110, 116, 44>>
CommaText == <<44>>
BlankText == <<32>>

\* cells of a temperature-range column
TemperatureCells ==
    {Utf8Owned(t) : t \in {<<>>, AmbientText, RefrigeratedText, BogusText, AmbientFrozenText,
                           PaddedAmbientText, LowerAmbientText, AmbientCommaText, CommaText,
                           BlankText, RefrigeratedBogusText}}
        \cup {Null, Int64(7), Float64(25), Boolean(TRUE)}

\* "-3.7", " 12", "7"
MinusThreeSevenText == <<45, 51, 46, 55>>
PaddedTwelveText == <<32, 49, 50>>
SevenText == <<55>>

\* cells of a quantity column
NumericCells ==
    {Utf8Owned(t) : t \in {TwelveText, AbcText, <<>>, MinusThreeSevenText, PaddedTwelveText,
                           SevenText}}
        \cup {Float64(50), Float64(-127), Int64(7), Int64(-3), Boolean(FALSE), Null}

\* the one-column table an extractor is called on
OneColumn(name, cells) == DataFrame(<<name>>, <<cells>>)

\* "PICKUP", " Delivery", "Pickup " and "Delivery\n"
UpperPickupText == <<80, 73, 67, 75, 85, 80>>
ModeTexts ==
    {DeliveryText, PickupText, LowerDeliveryText, UpperPickupText, <<>>,
     <<32>> \o DeliveryText, PickupText \o <<32>>, DeliveryText \o <<10>>,
     DeliveryText \o PickupText, SubSeq(DeliveryText, 1, 7)}

\* rows of a sheet: header rows and data rows of several widths
SheetHeaderRows ==
    {<<StringCell(J1Text), StringCell(H1Text)>>,
     <<StringCell(J1Text), StringCell(J1Text)>>,
     <<StringCell(J1NullText), StringCell(J1Text)>>,
     <<StringCell(J1Text), FloatCell(50), EmptyCell>>,
     <<EmptyCell, ErrorCell>>,
     <<EmptyCell, EmptyCell>>,
     <<StringCell(H1Text)>>}
SheetDataRows ==
    {<<StringCell(AcmeText), IntCell(3)>>,
     <<BoolCell(TRUE)>>,
     <<FloatCell(125), ErrorCell, StringCell(J1NullText)>>,
     <<EmptyCell, StringCell(BoltText), IntCell(1), IntCell(2)>>}
SheetRanges ==
    {<<>>} \cup {<<h>> \o rows : h \in SheetHeaderRows, rows \in SeqsUpTo(SheetDataRows, MaxSheetRows)}

\* workbooks: any number of sheets, a first sheet that reads or not
CallBooks ==
    {Workbook(opens, n, range) :
        opens \in BOOLEAN, n \in 0..MaxSheets,
        range \in {<<>>, <<<<StringCell(J1Text), StringCell(J1Text)>>>>,
                   <<<<StringCell(J1Text), StringCell(H1Text)>>, <<IntCell(3)>>>>}}
        \cup {UnreadableWorkbook(n, read) : n \in 0..MaxSheets, read \in {"error", "missing"}}

Calls ==
    {Call("decode_text", t) : t \in SeqsUpTo(CodeUnits, MaxTextLen)}
        \cup {Call("extract_column_as_temperature_ranges", c) :
                 c \in SeqsUpTo(TemperatureCells, MaxColumnCells)}
        \cup {Call("extract_column_as_i32", c) : c \in SeqsUpTo(NumericCells, MaxColumnCells)}
        \cup {Call("ColumnMapping::new", m) : m \in DispoModes}
        \cup {Call("DispoMode::from_str", t) : t \in ModeTexts}
        \cup {Call("DispoMode::to_string", m) : m \in DispoModes}
        \cup {Call("parse_sheet", r) : r \in SheetRanges}
        \cup {Call("parse_xls_file_tms", b) : b \in CallBooks}

InitCalls ==
    /\ phase = "call"
    /\ call \in Calls
    /\ returned = NoValue
    /\ date1 = NoValue
    /\ date2 = NoValue
    /\ middle = NoValue
    /\ tolerance = NoValue
    /\ cl_view = NoValue
    /\ shipper_site = NoValue
    /\ mode = NoValue
    /\ response = NoValue

\* what every call leaves alone
CallFrame ==
    UNCHANGED <<phase, date1, date2, middle, tolerance, cl_view, shipper_site, mode, response,
                call>>

DecodeText ==
    /\ phase = "call" /\ call.op = "decode_text" /\ returned = NoValue
    /\ returned' = Some(decode_text(call.arg))
    /\ CallFrame

ExtractColumnAsTemperatureRanges ==
    /\ phase = "call" /\ call.op = "extract_column_as_temperature_ranges" /\ returned = NoValue
    /\ returned' = Some(extract_column_as_temperature_ranges(
                            OneColumn(TEMPERATURE_RANGE_COLUMN_NAME, call.arg),
                            TEMPERATURE_RANGE_COLUMN_NAME))
    /\ CallFrame

ExtractColumnAsI32 ==
    /\ phase = "call" /\ call.op = "extract_column_as_i32" /\ returned = NoValue
    /\ returned' = Some(extract_column_as_i32(OneColumn(QUANTITY_COLUMN_NAME, call.arg),
                                              QUANTITY_COLUMN_NAME))
    /\ CallFrame

NewColumnMapping ==
    /\ phase = "call" /\ call.op = "ColumnMapping::new" /\ returned = NoValue
    /\ returned' = Some(ColumnMapping(call.arg))
    /\ CallFrame

FromStr ==
    /\ phase = "call" /\ call.op = "DispoMode::from_str" /\ returned = NoValue
    /\ returned' = Some(DispoMode_from_str(call.arg))
    /\ CallFrame

\* a mode displayed; the text displayed is then the argument of from_str
DisplayMode ==
    /\ phase = "call" /\ call.op = "DispoMode::to_string" /\ returned = NoValue
    /\ call' = Call("DispoMode::from_str", DispoMode_to_string(call.arg))
    /\ UNCHANGED <<phase, date1, date2, middle, tolerance, cl_view, shipper_site, mode,
                   response, returned>>

ParseSheet ==
    /\ phase = "call" /\ call.op = "parse_sheet" /\ returned = NoValue
    /\ returned' = Some(parse_sheet(call.arg))
    /\ CallFrame

ParseXlsFileTms ==
    /\ phase = "call" /\ call.op = "parse_xls_file_tms" /\ returned = NoValue
    /\ returned' = Some(parse_xls_file_tms(call.arg))
    /\ CallFrame

NextCalls ==
    \/ DecodeText
    \/ ExtractColumnAsTemperatureRanges
    \/ ExtractColumnAsI32
    \/ NewColumnMapping
    \/ FromStr
    \/ DisplayMode
    \/ ParseSheet
    \/ ParseXlsFileTms

SpecCalls == InitCalls /\ [][NextCalls]_vars

Init == InitDates \/ InitRequest \/ InitCalls

Next ==
    \/ MiddleBetweenDates
    \/ CalculateTolerance
    \/ ParseFiles
    \/ NextCalls

Spec == Init /\ [][Next]_vars

(***************************************************************************)
(* Properties of the date engine                                           *)
(***************************************************************************)
ToleranceValues == {0, 15, 30, 60, 120}

\* the bucket table of the tolerance
Bucket(d) ==
    IF d = 0 THEN 0
    ELSE IF d \in 1..15 THEN 15
    ELSE IF d \in 16..30 THEN 30
    ELSE IF d \in 31..60 THEN 60
    ELSE 120

\* the earlier and the later of two dates
MinDate(a, b) == IF DateLess(b, a) THEN b ELSE a
MaxDate(a, b) == IF DateLess(b, a) THEN a ELSE b

\* the number of whole minutes contained in the distance between two dates
MinutesApart(a, b) == DateSub(MaxDate(a, b), MinDate(a, b)).secs \div SECS_PER_MINUTE

\* C2: calculate_tolerance(early, late) is the bucket of d, the whole minutes
\* between early and m = midpoint(early, late): 0 -> 0, 1..15 -> 15,
\* 16..30 -> 30, 31..60 -> 60, above 60 -> 120.
C2_ToleranceIsBucket ==
    (phase = "dates" /\ tolerance # NoValue) =>
        tolerance.some = Bucket(MinutesApart(date1, middle_between_dates(date1, date2)))

\* a tolerance computed from a first date lying a fraction of a minute
\* before the midpoint
C2_Witness ==
    /\ phase = "dates"
    /\ tolerance # NoValue
    /\ tolerance.some = 30
    /\ DateLess(date1, date2)
    /\ DateSub(middle_between_dates(date1, date2), date1).nanos > 0

\* C3: calculate_tolerance(a, b) = calculate_tolerance(b, a) for every pair of
\* datetimes, at the full resolution of the datetime type.
C3_ToleranceSymmetric ==
    (phase = "dates" /\ tolerance # NoValue) =>
        tolerance.some = calculate_tolerance(date2, date1)

\* C5: midpoint(a, b) = midpoint(b, a), and midpoint(a, a) = a.
C5_MiddleSymmetricIdempotent ==
    (phase = "dates" /\ middle # NoValue) =>
        /\ middle = middle_between_dates(date2, date1)
        /\ (date1 = date2 => middle = date1)

\* a midpoint computed with the later date given first
C5_Witness ==
    /\ phase = "dates"
    /\ middle # NoValue
    /\ DateLess(date2, date1)

\* C6: the midpoint lies in [min(a,b), max(a,b)], is never farther from the
\* earlier date than from the later one, and the two distances differ by at
\* most one nanosecond: it is min + floor((max - min) / 2).
C6_MiddleIsFloorHalf ==
    (phase = "dates" /\ middle # NoValue) =>
        LET lo == MinDate(date1, date2)
            hi == MaxDate(date1, date2)
            toEarlier == DateSub(middle, lo)
            toLater == DateSub(hi, middle)
        IN  /\ ~DateLess(middle, lo)
            /\ ~DateLess(hi, middle)
            /\ DateSub(toLater, toEarlier) \in {DateTime(0, 0), DateTime(0, 1)}

\* a midpoint of an interval of odd length (in nanoseconds) and of an odd
\* number of seconds
C6_Witness ==
    /\ phase = "dates"
    /\ middle # NoValue
    /\ DateSub(MaxDate(date1, date2), MinDate(date1, date2)).nanos % 2 = 1
    /\ DateSub(MaxDate(date1, date2), MinDate(date1, date2)).secs % 2 = 1

(***************************************************************************)
(* Properties of a request                                                 *)
(***************************************************************************)
Done == phase = "request" /\ response # NoValue

ModeValid == mode \in {DeliveryText, PickupText}

\* the mode a valid mode string names
RequestMode == IF mode = DeliveryText THEN "Delivery" ELSE "Pickup"

\* the columns the request needs of the CL-View sheet, of the Shipper/Site sheet
ClRequired ==
    LET mp == ColumnMapping(RequestMode)
    IN  {mp.job_number, mp.quantity, mp.equipment_codes, mp.target_early, mp.target_late,
         mp.info, mp.name, mp.address, mp.city, mp.state, mp.postal_code, mp.country}

ShipperRequired == {JOB_NUMBER_COLUMN_NAME, HAWB_COLUMN_NAME, TEMPERATURE_RANGE_COLUMN_NAME}

HeaderNames(book) == get_header_names(book.range).value

HasHeader(book) == book.opens /\ book.sheets = 1 /\ book.read = "ok" /\ Len(book.range) >= 1

LacksColumn(book, required) ==
    LET names == HeaderNames(book)
    IN  \E n \in required : \A i \in 1..Len(names) : names[i] # n

DistinctHeaders(book) ==
    LET names == HeaderNames(book)
    IN  \A i, j \in 1..Len(names) : i # j => names[i] # names[j]

\* one sheet, a header row with every required column, each name once
BookValid(book, required) ==
    HasHeader(book) /\ ~LacksColumn(book, required) /\ DistinctHeaders(book)

InputsValid ==
    ModeValid /\ BookValid(cl_view, ClRequired) /\ BookValid(shipper_site, ShipperRequired)

DataRows(book) == Len(book.range) - 1

HeaderIndex(book, name) ==
    LET names == HeaderNames(book)
    IN  CHOOSE i \in 1..Len(names) : names[i] = name

\* the table cells of the column called name, one for every data row
CellColumn(book, name) ==
    LET at == HeaderIndex(book, name)
    IN  [r \in 1..DataRows(book) |-> data_type_to_any_value(book.range[r + 1][at])]

ClKeys == CellColumn(cl_view, JOB_NUMBER_COLUMN_NAME)
ShipperKeys == CellColumn(shipper_site, JOB_NUMBER_COLUMN_NAME)

\* the pairs of a CL-View row and a Shipper/Site row that share the job number
MatchingPairs ==
    LET left == ClKeys
        right == ShipperKeys
    IN  {p \in (1..Len(left)) \X (1..Len(right)) : left[p[1]] = right[p[2]]}

\* the CL-View rows that have a counterpart in the Shipper/Site sheet
JoinedClRows == {p[1] : p \in MatchingPairs}

Coercible(cell) ==
    \/ cell.type \in {"Int64", "Float64"}
    \/ cell.type = "Utf8Owned" /\ ParseFloat(cell.s).ok

\* some row of the joined table holds a quantity that is no number
BadQuantityJoined ==
    LET quantity == CellColumn(cl_view, QUANTITY_COLUMN_NAME)
    IN  \E r \in JoinedClRows : ~Coercible(quantity[r])

\* C1: every JobRow returned has calculated_date = midpoint(early_date,
\* late_date) and tolerance = calculate_tolerance(early_date, late_date), also
\* where a date fell back to the epoch.
C1_RowDatesDerived ==
    (Done /\ response.ok) =>
        LET Derived(row) ==
                /\ row.calculated_date = middle_between_dates(row.early_date, row.late_date)
                /\ row.tolerance = calculate_tolerance(row.early_date, row.late_date)
        IN  \A k \in 1..Len(response.value) : Derived(response.value[k])

\* a returned row whose early date fell back to the epoch beside a parsed late date
C1_Witness ==
    /\ Done
    /\ response.ok
    /\ \E k \in 1..Len(response.value) :
          /\ response.value[k].early_date = EpochDate
          /\ response.value[k].late_date # EpochDate

\* C4: calculate_tolerance returns one of 0, 15, 30, 60, 120, and so the
\* tolerance of every JobRow of a successful request is one of these.
C4_ToleranceValues ==
    /\ (phase = "dates" /\ tolerance # NoValue) => tolerance.some \in ToleranceValues
    /\ (Done /\ response.ok) =>
          LET InValues(row) == row.tolerance \in ToleranceValues
          IN  \A k \in 1..Len(response.value) : InValues(response.value[k])

\* a tolerance computed for dates more than two hours apart
C4_Witness ==
    /\ phase = "dates"
    /\ tolerance # NoValue
    /\ MinutesApart(date1, date2) > 121

HardFailure ==
    \/ ~ModeValid
    \/ \E book \in {cl_view, shipper_site} : book.sheets # 1
    \/ \E book \in {cl_view, shipper_site} : book.sheets = 1 /\ Len(book.range) = 0
    \/ ModeValid /\ HasHeader(cl_view) /\ LacksColumn(cl_view, ClRequired)
    \/ ModeValid /\ HasHeader(shipper_site) /\ LacksColumn(shipper_site, ShipperRequired)
    \/ InputsValid /\ BadQuantityJoined

\* C8: a request returns an error and no rows, or one JobRow for every row of
\* the joined table; every hard failure (sheet count, empty sheet, missing
\* column, invalid mode, a quantity that is no number) gives the error.
C8_AllOrNothing ==
    Done =>
        /\ response.ok => Len(response.value) = Cardinality(MatchingPairs)
        /\ ~response.ok => "value" \notin DOMAIN response
        /\ HardFailure => ~response.ok

\* an error returned although one joined row is sound: another one holds a
\* quantity that is no number
C8_Witness ==
    /\ Done
    /\ InputsValid
    /\ ~response.ok
    /\ \E r \in JoinedClRows : Coercible(CellColumn(cl_view, QUANTITY_COLUMN_NAME)[r])
    /\ BadQuantityJoined

\* the date a target-date cell stands for
ExpectedDate(cell) ==
    IF cell.type = "Utf8Owned" /\ ParseDateTime(cell.s).ok THEN ParseDateTime(cell.s).value
    ELSE EpochDate

SoftFailing(cell) == ~(cell.type = "Utf8Owned" /\ ParseDateTime(cell.s).ok)

\* the book with the cell of data row r in the column called name replaced
ReplaceCell(book, r, name, cell) ==
    [book EXCEPT !.range[r + 1][HeaderIndex(book, name)] = cell]

SameExcept(a, b, fields) == \A f \in (DOMAIN a) \ fields : a[f] = b[f]

\* the response is what it would be with a valid date in every place where a
\* target-date cell does not parse, but for the fields named for that column
\* in the rows built from that cell
AsIfValid(early_fields, late_fields) ==
    LET mp == ColumnMapping(RequestMode)
        pairs == JoinPairs(ClKeys, ShipperKeys)
        Unaffected(r, name, fields) ==
            LET fixed == parse_files(ReplaceCell(cl_view, r, name, StringCell(EightText)),
                                     shipper_site, mode)
            IN  IF ~response.ok THEN fixed = response
                ELSE /\ fixed.ok
                     /\ Len(fixed.value) = Len(response.value)
                     /\ \A k \in 1..Len(response.value) :
                           IF pairs[k][1] = r
                           THEN SameExcept(response.value[k], fixed.value[k], fields)
                           ELSE response.value[k] = fixed.value[k]
        early == CellColumn(cl_view, mp.target_early)
        late == CellColumn(cl_view, mp.target_late)
    IN  \A r \in 1..DataRows(cl_view) :
            /\ SoftFailing(early[r]) => Unaffected(r, mp.target_early, early_fields)
            /\ SoftFailing(late[r]) => Unaffected(r, mp.target_late, late_fields)

\* every returned row carries the dates its cells stand for, the epoch for a
\* cell that is no text or does not match the template
DatesDefaulted ==
    LET mp == ColumnMapping(RequestMode)
        pairs == JoinPairs(ClKeys, ShipperKeys)
        early == CellColumn(cl_view, mp.target_early)
        late == CellColumn(cl_view, mp.target_late)
    IN  response.ok =>
            \A k \in 1..Len(response.value) :
                /\ response.value[k].early_date = ExpectedDate(early[pairs[k][1]])
                /\ response.value[k].late_date = ExpectedDate(late[pairs[k][1]])

DateErrorNeverReturned ==
    Done => (response.ok \/ response.error.kind # "AnyValueToNaiveDateTimeParse")

\* C9 as claimed: a target-date cell that is no text or does not match the
\* template gives the epoch for that field of that row, never an error, and
\* every other field of the row and every other row is as with a valid cell.
C9_SoftDateOnlyThatField ==
    /\ DateErrorNeverReturned
    /\ (Done /\ InputsValid) =>
          /\ DatesDefaulted
          /\ AsIfValid({"early_date"}, {"late_date"})

\* C9 as amended: ... every other row, and every field of the row other than
\* that date and the calculated_date and tolerance derived from it, is as
\* with a valid cell.
C9_SoftDateAndDerivedFields ==
    /\ DateErrorNeverReturned
    /\ (Done /\ InputsValid) =>
          /\ DatesDefaulted
          /\ AsIfValid({"early_date", "calculated_date", "tolerance"},
                       {"late_date", "calculated_date", "tolerance"})

\* two rows returned, one from a CL-View row whose early cell does not parse,
\* one from a row whose dates both parse
C9_Witness ==
    /\ Done
    /\ InputsValid
    /\ response.ok
    /\ LET mp == ColumnMapping(RequestMode)
           early == CellColumn(cl_view, mp.target_early)
           late == CellColumn(cl_view, mp.target_late)
       IN  /\ \E r \in JoinedClRows : SoftFailing(early[r])
           /\ \E r \in JoinedClRows : ~SoftFailing(early[r]) /\ ~SoftFailing(late[r])

\* the sum of the function f over the finite set S
RECURSIVE SumOver(_, _)
SumOver(S, f) ==
    IF S = {} THEN 0
    ELSE LET x == CHOOSE y \in S : TRUE
         IN  f[x] + SumOver(S \ {x}, f)

\* C10: the number of JobRows is the sum, over the job numbers k, of the
\* number of CL-View rows with key k times the number of Shipper/Site rows
\* with key k, keys compared exactly.
C10_RowCountIsSumOfProducts ==
    (Done /\ response.ok) =>
        LET left == ClKeys
            right == ShipperKeys
            keys == {left[r] : r \in 1..Len(left)} \cup {right[r] : r \in 1..Len(right)}
            product == [k \in keys |->
                            Cardinality({r \in 1..Len(left) : left[r] = k})
                              * Cardinality({r \in 1..Len(right) : right[r] = k})]
        IN  Len(response.value) = SumOver(keys, product)

\* duplicate keys on both sides: more rows returned than either sheet holds
C10_Witness ==
    /\ Done
    /\ response.ok
    /\ Len(response.value) > DataRows(cl_view)
    /\ Len(response.value) > DataRows(shipper_site)

(***************************************************************************)
(* Properties of a request: the worked example, the extracted vectors, the *)
(* projected columns                                                       *)
(***************************************************************************)
\* C14: in mode Delivery the CL-View row {J1, quantity 5, 01/01/2024 08:00,
\* 01/01/2024 09:00, consignee name Acme} and the Shipper/Site row {J1, H1,
\* Ambient} give exactly one JobRow: job_number J1, hawb_number H1, quantity 5,
\* temperature_ranges [Ambient], calculated_date 01/01/2024 08:30, tolerance 30.
C14_WorkedExample ==
    (/\ Done
     /\ mode = DeliveryText
     /\ cl_view = Workbook(TRUE, 1, <<HeaderRow(ClHeader), GoodClRow>>)
     /\ shipper_site = Workbook(TRUE, 1, <<HeaderRow(ShipperHeader), GoodShipperRow>>)) =>
        /\ response.ok
        /\ Len(response.value) = 1
        /\ response.value[1].mode = "Delivery"
        /\ response.value[1].job_number = J1Text
        /\ response.value[1].hawb_number = H1Text
        /\ response.value[1].quantities = 5
        /\ response.value[1].temperature_ranges = <<"Ambient">>
        /\ response.value[1].calculated_date = DateTime(1704097800, 0)
        /\ response.value[1].tolerance = 30
        /\ response.value[1].contact_name = AcmeText

\* the request of the example has returned
C14_Witness ==
    /\ Done
    /\ mode = DeliveryText
    /\ cl_view = Workbook(TRUE, 1, <<HeaderRow(ClHeader), GoodClRow>>)
    /\ shipper_site = Workbook(TRUE, 1, <<HeaderRow(ShipperHeader), GoodShipperRow>>)
    /\ response.ok

\* the joined table of a request with valid inputs
JoinedTable ==
    InnerJoin(select_columns_cl_view(parse_xls_file_tms(cl_view).value,
                                     ColumnMapping(RequestMode)).value,
              select_columns_shipper_site(parse_xls_file_tms(shipper_site).value,
                                          ColumnMapping(RequestMode)).value,
              JOB_NUMBER_COLUMN_NAME).value

\* the fields of a JobRow and the extracted vector each is read from
FieldVector ==
    [job_number |-> 1, hawb_number |-> 2, temperature_ranges |-> 3, address |-> 4,
     quantities |-> 5, postal_code |-> 6, city |-> 7, country |-> 8, equipment |-> 9,
     contact_name |-> 10, early_date |-> 11, late_date |-> 12]

\* C19: when from_dataframe reaches its assembly loop every extracted vector
\* is as long as the joined table has rows, and JobRow i holds element i of
\* every vector: no fallback for a missing element is taken.
C19_VectorsMatchRowCount ==
    (Done /\ InputsValid) =>
        LET steps == ExtractColumns(JoinedTable, ColumnMapping(RequestMode))
            rows == Cardinality(MatchingPairs)
        IN  (\A i \in 1..Len(steps) : steps[i].ok) =>
                /\ Height(JoinedTable) = rows
                /\ \A i \in 1..Len(steps) : Len(steps[i].value) = rows
                /\ response.ok
                /\ Len(response.value) = rows
                /\ \A index \in 1..rows : \A f \in DOMAIN FieldVector :
                      response.value[index][f] = steps[FieldVector[f]].value[index]

\* rows assembled from a joined table of several rows with null cells
C19_Witness ==
    /\ Done
    /\ InputsValid
    /\ response.ok
    /\ Len(response.value) >= 2
    /\ \E index \in 1..Len(response.value) : response.value[index].equipment = NullText

\* both workbooks give a table
TablesBuilt ==
    /\ HasHeader(cl_view) /\ DistinctHeaders(cl_view)
    /\ HasHeader(shipper_site) /\ DistinctHeaders(shipper_site)

\* the names in required that no header cell of the book holds
Lacking(book, required) ==
    LET names == HeaderNames(book)
    IN  {n \in required : \A i \in 1..Len(names) : names[i] # n}

\* C20: when the CL-View table lacks one of the 12 projected columns of the
\* mode (state and info among them) or the Shipper/Site table lacks one of
\* job number, HAWB, temperature range, the request fails with the error of
\* the column selection: no join, no JobRow.
C20_MissingColumnFails ==
    (/\ Done /\ ModeValid /\ TablesBuilt
     /\ Lacking(cl_view, ClRequired) \cup Lacking(shipper_site, ShipperRequired) # {}) =>
        /\ ~response.ok
        /\ "value" \notin DOMAIN response
        /\ response.error.kind = "PolarsError"
        /\ response.error.what = "ColumnNotFound"
        /\ response.error.name \in Lacking(cl_view, ClRequired) \cup Lacking(shipper_site, ShipperRequired)

\* a request whose CL-View sheet lacks only the state column, or only the
\* info column, of its mode
C20_Witness ==
    /\ Done /\ ModeValid /\ TablesBuilt
    /\ Lacking(shipper_site, ShipperRequired) = {}
    /\ \/ Lacking(cl_view, ClRequired) = {ColumnMapping(RequestMode).state}
       \/ Lacking(cl_view, ClRequired) = {ColumnMapping(RequestMode).info}
    /\ ~response.ok

(***************************************************************************)
(* Properties of a call                                                    *)
(***************************************************************************)
\* the call of op has returned
Returned(op) == phase = "call" /\ call.op = op /\ returned # NoValue

CommaPositions(s) == {i \in 1..Len(s) : s[i] = CharComma}

\* the k-th segment of s: what lies between its (k-1)-th and its k-th comma
Segment(s, k) ==
    LET commas == CommaPositions(s)
        start == CHOOSE p \in commas \cup {0} : Cardinality({c \in commas : c <= p}) = k - 1
        end == CHOOSE q \in commas \cup {Len(s) + 1} : Cardinality({c \in commas : c < q}) = k - 1
    IN  SubSeq(s, start + 1, end - 1)

\* the tag of a trimmed segment by the table of descriptive strings
TagOf(text) ==
    IF TemperatureRange_from_str(text).ok THEN TemperatureRange_from_str(text).value
    ELSE "Invalid"

ExpectedTags(cell) ==
    IF cell.type # "Utf8Owned" THEN <<"Ambient">>
    ELSE IF cell.s = <<>> THEN <<"Ambient">>
    ELSE [k \in 1..(Cardinality(CommaPositions(cell.s)) + 1) |-> TagOf(Trim(Segment(cell.s, k)))]

\* C11: temperature-range extraction never fails: an empty text cell and a
\* cell that is no text give [Ambient]; any other text gives one tag for every
\* comma-separated segment, in order, the segment trimmed and matched
\* case-exactly against the table, Invalid when unmatched; no list is empty.
C11_TemperatureRangesTotal ==
    Returned("extract_column_as_temperature_ranges") =>
        /\ returned.some.ok
        /\ Len(returned.some.value) = Len(call.arg)
        /\ \A i \in 1..Len(call.arg) :
              /\ returned.some.value[i] = ExpectedTags(call.arg[i])
              /\ Len(returned.some.value[i]) > 0
              /\ call.arg[i] = Utf8Owned(RefrigeratedText)
                    => returned.some.value[i] = <<"Refrigerated">>
              /\ call.arg[i] = Utf8Owned(BogusText) => returned.some.value[i] = <<"Invalid">>
              /\ call.arg[i] = Utf8Owned(AmbientFrozenText)
                    => returned.some.value[i] = <<"Ambient", "Frozen">>
              /\ call.arg[i] = Utf8Owned(LowerAmbientText) => returned.some.value[i] = <<"Invalid">>
              /\ call.arg[i] = Utf8Owned(PaddedAmbientText) => returned.some.value[i] = <<"Ambient">>

\* a column with a cell of two segments, one padded segment and a cell that is
\* no text
C11_Witness ==
    /\ Returned("extract_column_as_temperature_ranges")
    /\ \E i, j \in 1..Len(call.arg) :
          /\ call.arg[i] \in {Utf8Owned(AmbientFrozenText), Utf8Owned(PaddedAmbientText)}
          /\ call.arg[j].type # "Utf8Owned"
          /\ Len(returned.some.value[i]) >= 1
          /\ returned.some.value[j] = <<"Ambient">>

\* whether a quantity cell is a number, and the variant of its error if not
IsNumberCell(cell) ==
    \/ cell.type \in {"Float64", "Int64"}
    \/ cell.type = "Utf8Owned" /\ ParseFloat(cell.s).ok

ErrorVariant(cell) == IF cell.type = "Utf8Owned" THEN "StringParseError" ELSE "InvalidType"

\* the number of a cell, in tenths
TenthsOf(cell) ==
    CASE cell.type = "Float64" -> cell.tenths
      [] cell.type = "Int64" -> cell.i * 10
      [] cell.type = "Utf8Owned" -> ParseFloat(cell.s).value

\* the part of a number in tenths before the decimal point
Truncated(t) == IF t >= 0 THEN t \div 10 ELSE -((-t) \div 10)

\* C12: integer extraction gives every cell's number cut to an integer ("12.0"
\* gives 12); a cell that is neither number nor text is an InvalidType error,
\* text that is no number a StringParseError; with a failing cell the result
\* is the error of the first failing cell and no vector.
C12_IntegerExtraction ==
    Returned("extract_column_as_i32") =>
        LET failing == {i \in 1..Len(call.arg) : ~IsNumberCell(call.arg[i])}
            first == CHOOSE i \in failing : \A j \in failing : i <= j
        IN  IF failing = {}
            THEN /\ returned.some.ok
                 /\ Len(returned.some.value) = Len(call.arg)
                 /\ \A i \in 1..Len(call.arg) :
                       /\ returned.some.value[i] = Truncated(TenthsOf(call.arg[i]))
                       /\ call.arg[i] = Utf8Owned(TwelveText) => returned.some.value[i] = 12
            ELSE /\ ~returned.some.ok
                 /\ "value" \notin DOMAIN returned.some
                 /\ returned.some.error.kind = "AnyValueToNumericParse"
                 /\ returned.some.error.variant = ErrorVariant(call.arg[first])
                 /\ returned.some.error.text = AnyValueToString(call.arg[first])

\* a column of two numbers with fractions, and a column whose two cells fail
\* with different errors
C12_Witness ==
    /\ Returned("extract_column_as_i32")
    /\ \/ /\ call.arg = <<Float64(-127), Utf8Owned(TwelveText)>>
          /\ returned.some.ok
       \/ /\ call.arg = <<Boolean(FALSE), Utf8Owned(AbcText)>>
          /\ ~returned.some.ok

HasPrefix(s, prefix) == Len(s) >= Len(prefix) /\ SubSeq(s, 1, Len(prefix)) = prefix

\* "Consignee", "Shipper", "Target Delivery", "Target Ship"
ConsigneeText == <<67, 111, 110, 115, 105, 103, 110, 101, 101>>
ShipperText == <<83, 104, 105, 112, 112, 101, 114>>
TargetDeliveryText == <<84, 97, 114, 103, 101, 116, 32, 68, 101, 108, 105, 118, 101, 114, 121>>
TargetShipText == <<84, 97, 114, 103, 101, 116, 32, 83, 104, 105, 112>>

ModeSwitchedParty == {"info", "name", "address", "city", "state", "postal_code", "country"}
ModeSwitchedTarget == {"target_early", "target_late"}
ModeInvariant == {"job_number", "hawb", "quantity", "equipment_codes", "temperature_range"}

IsTableOf(df, range) ==
    /\ Len(df.names) = Len(range[1])
    /\ Len(df.columns) = Len(range[1])
    /\ \A c \in 1..Len(range[1]) :
          /\ df.names[c] = decode_text(DataTypeToString(range[1][c]))
          /\ Len(df.columns[c]) = Len(range) - 1
          /\ \A r \in 1..(Len(range) - 1) :
                df.columns[c][r] = IF c <= Len(range[r + 1])
                                   THEN data_type_to_any_value(range[r + 1][c])
                                   ELSE Null

\* the decoded header names of a range are pairwise different
DistinctNames(range) ==
    \A i, j \in 1..Len(range[1]) :
        i # j => decode_text(DataTypeToString(range[1][i])) # decode_text(DataTypeToString(range[1][j]))

\* C15 as stated: parse_sheet fails with NoHeadersFound exactly when the sheet
\* has no row, and of every other sheet returns the table: a column for every
\* header cell, each with (rows - 1) entries, short rows padded with null.
C15_ParseSheetTable ==
    Returned("parse_sheet") =>
        /\ (Len(call.arg) = 0) <=> (returned.some = Err([kind |-> "NoHeadersFound"]))
        /\ Len(call.arg) > 0 => (returned.some.ok /\ IsTableOf(returned.some.value, call.arg))

\* C15: parse_sheet fails with NoHeadersFound exactly when the sheet has no
\* row; of a sheet whose decoded header names are pairwise different it
\* returns the table (a column for every header cell, each with (rows - 1)
\* entries, short rows padded with null); of a sheet with a header name twice
\* it fails with the error of the table constructor.
C15_ParseSheetTableDistinctNames ==
    Returned("parse_sheet") =>
        /\ (Len(call.arg) = 0) <=> (returned.some = Err([kind |-> "NoHeadersFound"]))
        /\ (Len(call.arg) > 0 /\ DistinctNames(call.arg)) =>
              (returned.some.ok /\ IsTableOf(returned.some.value, call.arg))
        /\ (Len(call.arg) > 0 /\ ~DistinctNames(call.arg)) =>
              (~returned.some.ok /\ returned.some.error.kind = "PolarsError")

\* a table of a sheet with a data row shorter than the header
C15_Witness ==
    /\ Returned("parse_sheet")
    /\ Len(call.arg) >= 2
    /\ Len(call.arg[2]) < Len(call.arg[1])
    /\ returned.some.ok
    /\ returned.some.value.columns[Len(call.arg[1])][1] = Null

\* C16: a workbook with N sheets, N other than 1, fails with
\* InvalidSheetCount(1, N) whatever its first sheet holds, for no sheet is read
\* before the count; a workbook with one sheet of no rows fails with
\* NoHeadersFound.
C16_SheetCountFirst ==
    Returned("parse_xls_file_tms") =>
        /\ (call.arg.opens /\ call.arg.sheets # 1) =>
              returned.some = Err([kind |-> "InvalidSheetCount", expected |-> 1,
                                   actual |-> call.arg.sheets])
        /\ (call.arg.opens /\ call.arg.sheets = 1 /\ call.arg.read = "ok"
               /\ Len(call.arg.range) = 0) =>
              returned.some = Err([kind |-> "NoHeadersFound"])

\* a workbook of no or two sheets whose first sheet cannot be read, or has no
\* row, or has a header name twice
C16_Witness ==
    /\ Returned("parse_xls_file_tms")
    /\ call.arg.opens
    /\ call.arg.sheets # 1
    /\ \/ call.arg.read # "ok"
       \/ Len(call.arg.range) = 0
       \/ ~DistinctNames(call.arg.range)
    /\ returned.some.error.kind = "InvalidSheetCount"

\* C17: DispoMode::from_str accepts the strings "Delivery" and "Pickup" and no
\* other: any other string (another case, empty, padded) is a StringToDispoMode
\* error; from_str of the displayed mode is the mode.
C17_FromStrExact ==
    Returned("DispoMode::from_str") =>
        /\ call.arg = DeliveryText => returned.some = Ok("Delivery")
        /\ call.arg = PickupText => returned.some = Ok("Pickup")
        /\ call.arg \notin {DeliveryText, PickupText} =>
              returned.some = Err([kind |-> "StringToDispoMode", text |-> call.arg])
        /\ \A m \in DispoModes : call.arg = DispoMode_to_string(m) => returned.some = Ok(m)

\* "delivery" or "PICKUP" refused
C17_Witness ==
    /\ Returned("DispoMode::from_str")
    /\ call.arg \in {LowerDeliveryText, UpperPickupText}
    /\ ~returned.some.ok

\* C18: the output of decode_text holds no null character, whatever the code
\* units of its input.
C18_DecodedTextHasNoNull ==
    Returned("decode_text") => \A i \in 1..Len(returned.some) : returned.some[i] # 0

(***************************************************************************)
(* Properties of a request: the order of its stages                        *)
(***************************************************************************)
\* the kind of the error that parsing a workbook ends with, "none" if it gives
\* a table: the file opens, has one sheet, the sheet reads, has a header row,
\* no header name twice
BookFailure(book) ==
    IF ~book.opens THEN "CalamineError"
    ELSE IF book.sheets # 1 THEN "InvalidSheetCount"
    ELSE IF book.read # "ok" THEN "CalamineError"
    ELSE IF Len(book.range) = 0 THEN "NoHeadersFound"
    ELSE IF ~DistinctHeaders(book) THEN "PolarsError"
    ELSE "none"

\* the response is the error of parsing this workbook
ReportsBook(book) ==
    /\ ~response.ok
    /\ response.error.kind = BookFailure(book)
    /\ BookFailure(book) = "InvalidSheetCount" => response.error.actual = book.sheets
    /\ BookFailure(book) = "PolarsError" => response.error.what = "Duplicate"

\* the response is the error of selecting a column this workbook lacks
ReportsLacking(book, required) ==
    /\ ~response.ok
    /\ response.error.kind = "PolarsError"
    /\ response.error.what = "ColumnNotFound"
    /\ response.error.name \in Lacking(book, required)

\* C21: the error reported is that of the first failing stage, in the order
\* mode string, CL-View workbook (sheet count, then headers), Shipper/Site
\* workbook, CL-View column selection, Shipper/Site column selection, join,
\* column extraction: an invalid mode is reported whatever the files hold, of
\* two invalid workbooks the CL-View one is reported, and a Shipper/Site
\* workbook error comes before a column missing in the CL-View sheet.
C21_FirstFailingStage ==
    Done =>
        /\ ~ModeValid => response = Err([kind |-> "StringToDispoMode", text |-> mode])
        /\ (ModeValid /\ BookFailure(cl_view) # "none") => ReportsBook(cl_view)
        /\ (ModeValid /\ BookFailure(cl_view) = "none" /\ BookFailure(shipper_site) # "none") =>
              ReportsBook(shipper_site)
        /\ (ModeValid /\ TablesBuilt /\ Lacking(cl_view, ClRequired) # {}) =>
              ReportsLacking(cl_view, ClRequired)
        /\ (ModeValid /\ TablesBuilt /\ Lacking(cl_view, ClRequired) = {}
               /\ Lacking(shipper_site, ShipperRequired) # {}) =>
              ReportsLacking(shipper_site, ShipperRequired)
        /\ (InputsValid /\ BadQuantityJoined) =>
              (~response.ok /\ response.error.kind = "AnyValueToNumericParse")
        /\ (InputsValid /\ ~BadQuantityJoined) => response.ok

\* a CL-View sheet lacking a column beside a Shipper/Site workbook that has
\* not one sheet: the sheet count is what the request reports
C21_Witness ==
    /\ Done
    /\ ModeValid
    /\ BookFailure(cl_view) = "none"
    /\ Lacking(cl_view, ClRequired) # {}
    /\ BookFailure(shipper_site) = "InvalidSheetCount"
    /\ response.error.kind = "InvalidSheetCount"

(***************************************************************************)
(* Properties of the tolerance of whole-minute dates                       *)
(***************************************************************************)
\* a date on a whole minute
Aligned(d) == d.nanos = 0 /\ d.secs % SECS_PER_MINUTE = 0

\* the tolerance by the width of the window in minutes
WindowBucket(w) ==
    IF w <= 1 THEN 0
    ELSE IF w <= 31 THEN 15
    ELSE IF w <= 61 THEN 30
    ELSE IF w <= 121 THEN 60
    ELSE 120

\* C22: for dates on whole minutes calculate_tolerance is a function of the
\* width w of the window in minutes, in either order of the dates: the bucket
\* of floor(w / 2), that is 0 for w <= 1, 15 for 2..31, 30 for 32..61, 60 for
\* 62..121, 120 from 122 on, never falling as w grows.  The dates of a JobRow
\* are on whole minutes and its tolerance is this one.
C22_ToleranceByWindowWidth ==
    /\ (phase = "dates" /\ tolerance # NoValue /\ Aligned(date1) /\ Aligned(date2)) =>
          /\ tolerance.some = WindowBucket(MinutesApart(date1, date2))
          /\ calculate_tolerance(date2, date1) = WindowBucket(MinutesApart(date1, date2))
          /\ WindowBucket(MinutesApart(date1, date2)) = Bucket(MinutesApart(date1, date2) \div 2)
          /\ WindowBucket(MinutesApart(date1, date2)) <= WindowBucket(MinutesApart(date1, date2) + 1)
    /\ (Done /\ response.ok) =>
          \A k \in 1..Len(response.value) :
              /\ Aligned(response.value[k].early_date)
              /\ Aligned(response.value[k].late_date)
              /\ response.value[k].tolerance =
                    WindowBucket(MinutesApart(response.value[k].early_date,
                                              response.value[k].late_date))

\* a tolerance computed for a window of an odd number of minutes
C22_Witness ==
    /\ phase = "dates"
    /\ tolerance # NoValue
    /\ Aligned(date1) /\ Aligned(date2)
    /\ MinutesApart(date1, date2) = 31
    /\ tolerance.some = 15

(***************************************************************************)
(* Properties of decode_text                                               *)
(***************************************************************************)
\* the positions of the code units of a text that are not zero
NonZeroPositions(text) == {p \in 1..Len(text) : text[p] # 0}

\* the position of the k-th code unit that is not zero
NonZeroPosition(text, k) ==
    CHOOSE p \in NonZeroPositions(text) :
        Cardinality({q \in NonZeroPositions(text) : q <= p}) = k

====
